---------------------------- MODULE Spec2Model ----------------------------
(***************************************************************************)
(* A model of the flisp assembler back end (codegen), its lexer and        *)
(* parser, and its output encoders.                                        *)
(***************************************************************************)
EXTENDS Integers, Sequences, FiniteSets, TLC

VARIABLES
    mem,    \* a codegen Memory driven directly (set_pc / write_byte calls)
    asm,    \* one call of assemble(): the AST, the pass, the symbol table
    px,     \* the Parser and its Lexer inside assemble(): source, cursor, tokens
    s19,    \* one call of emit_s19(): the image, the loop cursor, the records
    rd,     \* one call of parse_s19() on the records of emit_s19
    fm,     \* emit_fmem() and one call of parse_fmem() on its text
    cpu,    \* one Program (the interpreter) and the calls made on it
    call    \* one call of a function on its own: the argument and the result

vars == <<mem, asm, px, s19, rd, fm, cpu, call>>

(***************************************************************************)
(* Program constants.                                                      *)
(***************************************************************************)
\* data: [u8; 256]
MemSize == 256
\* pc: u16
U16Mod == 65536
\* get_pc and args.len() casts: `as u8`
U8Mod == 256

(***************************************************************************)
(* Bounds of the model.                                                    *)
(***************************************************************************)
\* number of Memory calls in one run of the Memory driver
MaxMemOps == 4
\* number of lines of an assembled program
MaxLines == 4

Byte == 0 .. (U8Mod - 1)
Addr == 0 .. (MemSize - 1)

(***************************************************************************)
(* codegen::Memory                                                         *)
(***************************************************************************)
\* impl Default for Memory
MemoryDefault == [data |-> [a \in Addr |-> 0], pc |-> 0]

\* MemoryError, with "None" for Ok(())
MemOk(m) == [m |-> m, err |-> "None"]
MemErr(m, e) == [m |-> m, err |-> e]

\* u16::overflowing_add
OverflowingAdd16(a, b) == [val |-> (a + b) % U16Mod, overflow |-> (a + b) >= U16Mod]

\* write_byte with the cursor kept in 8 bits: the write at 255 wraps to 0
WriteByte_U8Cursor(m, byte) ==
    IF m.pc >= MemSize
    THEN MemErr(m, "OutOfBounds")
    ELSE LET m2 == [data |-> [m.data EXCEPT ![m.pc] = byte], pc |-> (m.pc + 1) % U8Mod]
         IN  IF m.pc + 1 >= U8Mod /\ m2.pc # 0
             THEN MemErr(m2, "Overflow")
             ELSE MemOk(m2)

\* Memory::write_byte
WriteByte(m, byte) ==
    IF m.pc >= MemSize
    THEN MemErr(m, "OutOfBounds")
    ELSE LET r  == OverflowingAdd16(m.pc, 1)
             m2 == [data |-> [m.data EXCEPT ![m.pc] = byte], pc |-> r.val]
         IN  IF r.overflow /\ m2.pc # 0
             THEN MemErr(m2, "Overflow")
             ELSE MemOk(m2)

\* Memory::set_pc (new_pc: u8)
SetPc(m, new_pc) == [m EXCEPT !.pc = new_pc]

\* Memory::get_pc: self.pc as u8
GetPc(m) == m.pc % U8Mod

\* Memory::inc_pc (inc: u8)
IncPc(m, inc) ==
    LET r  == OverflowingAdd16(m.pc, inc)
        m2 == [m EXCEPT !.pc = r.val]
    IN  IF r.overflow /\ m2.pc # 0
        THEN MemErr(m2, "Overflow")
        ELSE MemOk(m2)

(***************************************************************************)
(* The Memory driver: any sequence of set_pc and write_byte calls on a     *)
(* fresh Memory.  mem.prev is the Memory before the last call.             *)
(***************************************************************************)
\* arguments the driver passes to set_pc
PcInputs == {0, 1, 254, 255}
\* bytes the driver writes
ByteInputs == {0, 171}

MemIdle == [cur |-> MemoryDefault, prev |-> MemoryDefault,
            op |-> "new", arg |-> 0, err |-> "None", n |-> 0]

CallSetPc ==
    /\ mem.n < MaxMemOps
    /\ \E p \in PcInputs :
         mem' = [cur |-> SetPc(mem.cur, p), prev |-> mem.cur,
                 op |-> "set_pc", arg |-> p, err |-> "None", n |-> mem.n + 1]
    /\ UNCHANGED <<asm, px, s19, rd, fm, cpu, call>>

CallWriteByte ==
    /\ mem.n < MaxMemOps
    /\ \E b \in ByteInputs :
         LET r == WriteByte(mem.cur, b)
         IN  mem' = [cur |-> r.m, prev |-> mem.cur,
                     op |-> "write_byte", arg |-> b, err |-> r.err, n |-> mem.n + 1]
    /\ UNCHANGED <<asm, px, s19, rd, fm, cpu, call>>

NextMem == CallSetPc \/ CallWriteByte

(***************************************************************************)
(* The program AST (parser::ProgramAST).  A line is an instruction, a      *)
(* directive or a label definition; span is its source byte range.         *)
(***************************************************************************)
NoSpan == [start |-> 0, end |-> 0]

\* Atom / NumOrSym
Num(n) == [k |-> "Num", v |-> n, s |-> ""]
Sym(name) == [k |-> "Sym", v |-> 0, s |-> name]
Reg(name) == [k |-> "Reg", v |-> 0, s |-> name]
AtomNone == [k |-> "None", v |-> 0, s |-> ""]

\* Operand::{Imm, AbsAdr, RelAdr, N, Reg}
Operand(kind, atom) == [kind |-> kind, a |-> atom]

\* AsmLine::Instruction(AsmInstruction)
InsLine(opcode, operands, span) ==
    [kind |-> "Instruction", name |-> "", opcode |-> opcode,
     operands |-> operands, args |-> <<>>, span |-> span]
\* AsmLine::Directive(AsmDirective)
DirLine(name, args, span) ==
    [kind |-> "Directive", name |-> name, opcode |-> 0,
     operands |-> <<>>, args |-> args, span |-> span]
\* AsmLine::Symbol(AsmSymbol)
SymLine(name, span) ==
    [kind |-> "Symbol", name |-> name, opcode |-> 0,
     operands |-> <<>>, args |-> <<>>, span |-> span]

(***************************************************************************)
(* AssembleError, with "None" while assemble is running and "Ok" for       *)
(* Ok(image).  at is the index in ast.lines of the line the error carries. *)
(***************************************************************************)
NoResult == [kind |-> "None", msg |-> "", at |-> 0]
ResOk == [kind |-> "Ok", msg |-> "", at |-> 0]
ParseErr(msg, i) == [kind |-> "Parse", msg |-> msg, at |-> i]
OverflowFromInstruction(i) == [kind |-> "OverflowFromInstruction", msg |-> "", at |-> i]
OverflowFromDirective(i) == [kind |-> "OverflowFromDirective", msg |-> "", at |-> i]
\* todo!() and unreachable!()
Panic(i) == [kind |-> "Panic", msg |-> "", at |-> i]

\* HashMap::new()
EmptyMap == [n \in {} |-> 0]

AsmIdle ==
    [phase |-> "idle", ast |-> <<>>, idx |-> 0, symbols |-> EmptyMap,
     memory |-> MemoryDefault, result |-> NoResult, post1 |-> <<>>, post2 |-> <<>>]

\* assemble() after a successful parse: collect_symbols starts on a fresh
\* Memory with an empty symbol table
AsmStart(lines) ==
    [phase |-> "pass1", ast |-> lines, idx |-> 1, symbols |-> EmptyMap,
     memory |-> MemoryDefault, result |-> NoResult, post1 |-> <<>>, post2 |-> <<>>]

\* HashMap::insert
Insert(symbols, name, val) ==
    [n \in (DOMAIN symbols) \cup {name} |-> IF n = name THEN val ELSE symbols[n]]

\* the line failed: assemble returns Err(res)
Fail(a, res) == [a EXCEPT !.phase = "done", !.result = res]

\* pass 1: the line succeeded with Memory m and symbol table syms
Step1(a, m, syms) ==
    [a EXCEPT !.idx = a.idx + 1, !.memory = m, !.symbols = syms,
              !.post1 = Append(a.post1, m.pc)]

\* pass 2: the line succeeded with Memory m
Step2(a, m) ==
    [a EXCEPT !.idx = a.idx + 1, !.memory = m, !.post2 = Append(a.post2, m.pc)]

Cur(a) == a.ast[a.idx]
InPass(a, p) == a.phase = p /\ a.idx <= Len(a.ast)
IsDir(l, name) == l.kind = "Directive" /\ l.name = name

(***************************************************************************)
(* collect_symbols: one iteration of `for line in &ast.lines`.             *)
(***************************************************************************)
\* a label handler without the contains_key check: a second definition
\* overwrites the first
Collect_Symbol_NoDupCheck(a) ==
    Step1(a, a.memory, Insert(a.symbols, Cur(a).name, GetPc(a.memory)))

\* AsmLine::Symbol
Collect_Symbol(a) ==
    LET l == Cur(a)
    IN  IF l.name \in DOMAIN a.symbols
        THEN Fail(a, ParseErr("Duplicate symbol", a.idx))
        ELSE Step1(a, a.memory, Insert(a.symbols, l.name, GetPc(a.memory)))

\* an ORG that takes an unbound symbol as address 0 instead of failing
OrgTarget_UnboundIsZero(a) ==
    LET l == Cur(a)
    IN  IF Len(l.args) = 0 \/ l.args[1].k \notin {"Num", "Sym"}
        THEN [ok |-> FALSE, res |-> ParseErr("ORG directive requires an address argument", a.idx), pc |-> 0]
        ELSE IF l.args[1].k = "Num"
        THEN [ok |-> TRUE, res |-> NoResult, pc |-> l.args[1].v]
        ELSE IF l.args[1].s \in DOMAIN a.symbols
        THEN [ok |-> TRUE, res |-> NoResult, pc |-> a.symbols[l.args[1].s]]
        ELSE [ok |-> TRUE, res |-> NoResult, pc |-> 0]

\* Directive::Org, in both passes (the two match arms are the same code)
OrgTarget(a) ==
    LET l == Cur(a)
    IN  IF Len(l.args) = 0 \/ l.args[1].k \notin {"Num", "Sym"}
        THEN [ok |-> FALSE, res |-> ParseErr("ORG directive requires an address argument", a.idx), pc |-> 0]
        ELSE IF l.args[1].k = "Num"
        THEN [ok |-> TRUE, res |-> NoResult, pc |-> l.args[1].v]
        ELSE IF l.args[1].s \in DOMAIN a.symbols
        THEN [ok |-> TRUE, res |-> NoResult, pc |-> a.symbols[l.args[1].s]]
        ELSE [ok |-> FALSE, res |-> ParseErr("Undefined symbol", a.idx), pc |-> 0]

Collect_Org(a) ==
    LET t == OrgTarget(a)
    IN  IF t.ok THEN Step1(a, SetPc(a.memory, t.pc), a.symbols) ELSE Fail(a, t.res)

\* Directive::Equ
Collect_Equ(a) == Fail(a, ParseErr("EQU directives require a symbol definition", a.idx))

\* Directive::Fcb: size = dir.args.len() as u8
Collect_Fcb(a) ==
    LET r == IncPc(a.memory, Len(Cur(a).args) % U8Mod)
    IN  IF r.err = "None" THEN Step1(a, r.m, a.symbols)
        ELSE Fail(a, OverflowFromDirective(a.idx))

\* AsmLine::Instruction
Collect_Instruction(a) ==
    LET r == WriteByte(a.memory, Cur(a).opcode)
    IN  IF r.err = "None" THEN Step1(a, r.m, a.symbols)
        ELSE Fail(a, OverflowFromInstruction(a.idx))

\* AsmLine::Directive: match dir.name
Collect_Directive(a) ==
    CASE Cur(a).name = "Org" -> Collect_Org(a)
      [] Cur(a).name = "Equ" -> Collect_Equ(a)
      [] Cur(a).name = "Fcb" -> Collect_Fcb(a)
      \* Directive::Fcs => todo!(), Directive::Rmb => todo!()
      [] OTHER -> Fail(a, Panic(a.idx))

Pass1Symbol ==
    /\ InPass(asm, "pass1") /\ Cur(asm).kind = "Symbol"
    /\ asm' = Collect_Symbol(asm)
    /\ UNCHANGED <<mem, px, s19, rd, fm, cpu, call>>

Pass1Directive ==
    /\ InPass(asm, "pass1") /\ Cur(asm).kind = "Directive"
    /\ asm' = Collect_Directive(asm)
    /\ UNCHANGED <<mem, px, s19, rd, fm, cpu, call>>

Pass1Instruction ==
    /\ InPass(asm, "pass1") /\ Cur(asm).kind = "Instruction"
    /\ asm' = Collect_Instruction(asm)
    /\ UNCHANGED <<mem, px, s19, rd, fm, cpu, call>>

\* Ok(symbols): assemble goes on with a fresh Memory
Pass1Done ==
    /\ asm.phase = "pass1" /\ asm.idx > Len(asm.ast)
    /\ asm' = [asm EXCEPT !.phase = "pass2", !.idx = 1, !.memory = MemoryDefault]
    /\ UNCHANGED <<mem, px, s19, rd, fm, cpu, call>>

(***************************************************************************)
(* assemble, pass 2: one iteration of `for line in ast.lines`.             *)
(***************************************************************************)
\* a lookup that only knows numbers: pass 2 run without the table of pass 1
AtomByte_NoTable(atom, symbols) ==
    IF atom.k = "Num" THEN [ok |-> TRUE, v |-> atom.v] ELSE [ok |-> FALSE, v |-> 0]

\* The byte an operand or FCB argument stands for.  A number is written as
\* it is; a symbol is looked up in the table pass 1 built.
AtomByte(atom, symbols) ==
    IF atom.k = "Num" THEN [ok |-> TRUE, v |-> atom.v]
    ELSE IF atom.s \in DOMAIN symbols THEN [ok |-> TRUE, v |-> symbols[atom.s]]
    ELSE [ok |-> FALSE, v |-> 0]

\* the operand of an instruction: a symbol operand is resolved as an FCB
\* symbol argument is
OperandByte(op, symbols) == AtomByte(op.a, symbols)

\* for operand in ins.operands.iter(): from operand i on
RECURSIVE WriteOperands(_, _, _, _)
WriteOperands(m, ops, i, symbols) ==
    IF i > Len(ops) THEN [m |-> m, err |-> "None"]
    ELSE IF ops[i].kind = "Reg" THEN WriteOperands(m, ops, i + 1, symbols)
    ELSE LET b == OperandByte(ops[i], symbols)
         IN  IF ~b.ok THEN [m |-> m, err |-> "Undefined"]
             ELSE LET r == WriteByte(m, b.v)
                  IN  IF r.err # "None" THEN [m |-> r.m, err |-> "Overflow"]
                      ELSE WriteOperands(r.m, ops, i + 1, symbols)

\* AsmLine::Instruction
Emit_Instruction(a) ==
    LET r == WriteByte(a.memory, Cur(a).opcode)
    IN  IF r.err # "None" THEN Fail(a, OverflowFromInstruction(a.idx))
        ELSE LET w == WriteOperands(r.m, Cur(a).operands, 1, a.symbols)
             IN  CASE w.err = "None" -> Step2(a, w.m)
                   [] w.err = "Undefined" -> Fail(a, ParseErr("Undefined symbol", a.idx))
                   [] OTHER -> Fail(a, OverflowFromInstruction(a.idx))

\* Directive::Org
Emit_Org(a) ==
    LET t == OrgTarget(a)
    IN  IF t.ok THEN Step2(a, SetPc(a.memory, t.pc)) ELSE Fail(a, t.res)

\* Directive::Fcb: for arg in dir.args.iter(), from argument i on
RECURSIVE WriteArgs(_, _, _, _)
WriteArgs(m, args, i, symbols) ==
    IF i > Len(args) THEN [m |-> m, err |-> "None"]
    ELSE IF args[i].k \notin {"Num", "Sym"} THEN [m |-> m, err |-> "Unreachable"]
    ELSE LET b == AtomByte(args[i], symbols)
         IN  IF ~b.ok THEN [m |-> m, err |-> "Undefined"]
             ELSE LET r == WriteByte(m, b.v)
                  IN  IF r.err # "None" THEN [m |-> r.m, err |-> "Overflow"]
                      ELSE WriteArgs(r.m, args, i + 1, symbols)

Emit_Fcb(a) ==
    LET w == WriteArgs(a.memory, Cur(a).args, 1, a.symbols)
    IN  CASE w.err = "None" -> Step2(a, w.m)
          [] w.err = "Undefined" -> Fail(a, ParseErr("Undefined symbol", a.idx))
          [] w.err = "Unreachable" -> Fail(a, Panic(a.idx))
          [] OTHER -> Fail(a, OverflowFromDirective(a.idx))

\* AsmLine::Directive: match dir.name
Emit_Directive(a) ==
    CASE Cur(a).name = "Org" -> Emit_Org(a)
      [] Cur(a).name = "Fcb" -> Emit_Fcb(a)
      \* _ => todo!()
      [] OTHER -> Fail(a, Panic(a.idx))

Pass2Instruction ==
    /\ InPass(asm, "pass2") /\ Cur(asm).kind = "Instruction"
    /\ asm' = Emit_Instruction(asm)
    /\ UNCHANGED <<mem, px, s19, rd, fm, cpu, call>>

Pass2Directive ==
    /\ InPass(asm, "pass2") /\ Cur(asm).kind = "Directive"
    /\ asm' = Emit_Directive(asm)
    /\ UNCHANGED <<mem, px, s19, rd, fm, cpu, call>>

\* AsmLine::Symbol(_) => { /* Symbols are already collected */ }
Pass2Symbol ==
    /\ InPass(asm, "pass2") /\ Cur(asm).kind = "Symbol"
    /\ asm' = Step2(asm, asm.memory)
    /\ UNCHANGED <<mem, px, s19, rd, fm, cpu, call>>

\* Ok(*memory.get_data())
Pass2Done ==
    /\ asm.phase = "pass2" /\ asm.idx > Len(asm.ast)
    /\ asm' = [asm EXCEPT !.phase = "done", !.result = ResOk]
    /\ UNCHANGED <<mem, px, s19, rd, fm, cpu, call>>

NextAsm ==
    \/ Pass1Symbol \/ Pass1Directive \/ Pass1Instruction \/ Pass1Done
    \/ Pass2Instruction \/ Pass2Directive \/ Pass2Symbol \/ Pass2Done

(***************************************************************************)
(* Lexer (lexer/lexer.rs).  The source is a sequence of one-character      *)
(* strings.  pos counts the bytes consumed, so that curr is src[pos + 1]   *)
(* and None once pos = Len(src).  byte_queue and token_queue stay empty:   *)
(* the parser only calls next_token.                                       *)
(***************************************************************************)
\* evaluates v once and hands its value to F
Bind(v, F(_)) == CHOOSE r \in { F(x) : x \in {v} } : TRUE

\* the build profiles: u8 arithmetic overflow panics in one and wraps in the other
Builds == {"debug", "release"}

\* u8::MAX
U8Max == U8Mod - 1

Upper ==
    {"A", "B", "C", "D", "E", "F", "G", "H", "I", "J", "K", "L", "M",
     "N", "O", "P", "Q", "R", "S", "T", "U", "V", "W", "X", "Y", "Z"}
Lower ==
    {"a", "b", "c", "d", "e", "f", "g", "h", "i", "j", "k", "l", "m",
     "n", "o", "p", "q", "r", "s", "t", "u", "v", "w", "x", "y", "z"}
\* u8::is_ascii_whitespace, on the bytes a source is written with here
Whitespace == {" ", "\n", "\t", "\r"}
DecDigits == <<"0", "1", "2", "3", "4", "5", "6", "7", "8", "9">>
HexLower == <<"a", "b", "c", "d", "e", "f">>
HexUpper == <<"A", "B", "C", "D", "E", "F">>

InSeq(seq, c) == \E i \in 1 .. Len(seq) : seq[i] = c
\* c - b'0', c - b'a', c - b'A' for a byte c of the range
Offset(seq, c) == (CHOOSE i \in 1 .. Len(seq) : seq[i] = c) - 1

\* Option<u8>: None is the empty string
NoByte == ""
Curr(src, pos) == IF pos < Len(src) THEN src[pos + 1] ELSE NoByte

\* the result of a u8 operation whose exact value is v
U8Arith(v, build) ==
    [val |-> v % U8Mod,
     out |-> IF v \in Byte \/ build = "release" THEN "Ok" ELSE "Panic"]

\* Token { kind, value, start, end }; value is num or str by kind
Token(kind, num, str, start, end) ==
    [kind |-> kind, num |-> num, str |-> str, start |-> start, end |-> end]
\* Token::default()
TokenDefault == Token("Invalid", 0, "", 0, 0)
\* Token::eof
TokenEof(pos) == Token("Eof", 0, "", pos, pos)

\* the instruction enum, as the parser's table names its members
Mnemonics ==
    {"ADCA", "ADDA", "ANDA", "ANDCC", "ASR", "ASRA", "BCC", "BCS", "BEQ",
     "BGE", "BGT", "BHI", "BITA", "BLE", "BLS", "BLT", "BMI", "BNE", "BPL",
     "BRA", "BSR", "BVC", "BVS", "CLR", "CLRA", "CMPA", "CMPSP", "CMPX",
     "CMPY", "COM", "COMA", "DEC", "DECA", "EORA", "EXG", "INC", "INCA",
     "JMP", "JSR", "LDA", "LDSP", "LDX", "LDY", "LEASP", "LEAX", "LEAY",
     "LSL", "LSLA", "LSR", "LSRA", "NEG", "NEGA", "NOP", "ORA", "ORCC",
     "PSHA", "PSHC", "PSHX", "PSHY", "PULA", "PULC", "PULX", "PULY", "ROL",
     "ROLA", "ROR", "RORA", "RTI", "RTS", "SBCA", "STA", "STSP", "STX",
     "STY", "SUBA", "TFR", "TST", "TSTA"}

\* lexer::instruction::parse_instruction: the mnemonic when id is one, else ""
LexInstruction(id) == IF id \in Mnemonics THEN id ELSE ""

\* NAMED_LITERAL: only these keys can be collected as an identifier
LexNamedLiteral(id) == IF id \in {"SP", "X", "A", "Y", "CC"} THEN id ELSE ""

\* DIRECTIVE
LexDirective(id) ==
    CASE id = "ORG" -> "Org"
      [] id = "EQU" -> "Equ"
      [] id = "FCB" -> "Fcb"
      [] id = "FCS" -> "Fcs"
      [] id = "RMB" -> "Rmb"
      [] OTHER -> ""

RECURSIVE SkipWhitespace(_, _)
SkipWhitespace(src, pos) ==
    IF Curr(src, pos) \in Whitespace THEN SkipWhitespace(src, pos + 1) ELSE pos

RECURSIVE CollectIdentifier(_, _, _)
CollectIdentifier(src, pos, id) ==
    IF Curr(src, pos) \in Upper \cup Lower \cup {"_"}
    THEN CollectIdentifier(src, pos + 1, id \o Curr(src, pos))
    ELSE [id |-> id, pos |-> pos]

\* the loop of parse_number
RECURSIVE ParseNumberLoop(_, _, _, _, _)
ParseNumberLoop(src, pos0, mult, sum0, build) ==
    Bind(<<pos0, sum0>>, LAMBDA ps :
        LET pos == ps[1]
            sum == ps[2]
            c == Curr(src, pos)
            nxt == IF c \in {"0", "1"} THEN Offset(DecDigits, c)
                   ELSE IF InSeq(DecDigits, c) /\ mult >= 10 THEN Offset(DecDigits, c)
                   ELSE IF InSeq(HexLower, c) /\ mult = 16 THEN Offset(HexLower, c) + 16
                   ELSE IF InSeq(HexUpper, c) /\ mult = 16 THEN Offset(HexUpper, c) + 16
                   ELSE -1
            room == U8Arith((U8Max \div mult) - nxt, build)
            next_sum == U8Arith(sum * mult + nxt, build)
        IN  IF nxt = -1 THEN [val |-> sum, pos |-> pos, out |-> "Ok"]
            ELSE IF room.out # "Ok" THEN [val |-> sum, pos |-> pos, out |-> "Panic"]
            ELSE IF room.val < sum THEN [val |-> sum, pos |-> pos, out |-> "Ok"]
            ELSE IF next_sum.out # "Ok" THEN [val |-> sum, pos |-> pos, out |-> "Panic"]
            ELSE ParseNumberLoop(src, pos + 1, mult, next_sum.val, build))

ParseNumber(src, pos, build) ==
    CASE Curr(src, pos) = "%" -> ParseNumberLoop(src, pos + 1, 2, 0, build)
      [] Curr(src, pos) = "$" -> ParseNumberLoop(src, pos + 1, 16, 0, build)
      [] OTHER -> ParseNumberLoop(src, pos, 10, 0, build)

\* the comment loop: advance until curr is the line feed; at the end of the
\* source advance changes nothing and the loop never ends
RECURSIVE SkipComment(_, _)
SkipComment(src, pos) ==
    IF Curr(src, pos) = "\n" THEN [pos |-> pos + 1, out |-> "Ok"]
    ELSE IF pos >= Len(src) THEN [pos |-> pos, out |-> "Hang"]
    ELSE SkipComment(src, pos + 1)

LexResult(tok, pos, out) == [tok |-> tok, pos |-> pos, out |-> out]

RECURSIVE LexNextToken(_, _, _)
LexNextToken(src, pos0, build) ==
    LET start == SkipWhitespace(src, pos0)
        c == Curr(src, start)
    IN  IF c = NoByte THEN LexResult(TokenEof(start), start, "Ok")
        ELSE IF c = "#"
        THEN LexResult(Token("ImmediatePrefix", 0, "", start, start + 1), start + 1, "Ok")
        ELSE IF c \in Upper \cup Lower
        THEN LET r == CollectIdentifier(src, start, "")
                 kind == IF LexInstruction(r.id) # "" THEN "Instruction"
                         ELSE IF LexNamedLiteral(r.id) # "" THEN "NamedLiteral"
                         ELSE IF LexDirective(r.id) # "" THEN "Directive"
                         ELSE "Sym"
                 str == IF kind = "Directive" THEN LexDirective(r.id) ELSE r.id
             IN  LexResult(Token(kind, 0, str, start, r.pos), r.pos, "Ok")
        ELSE IF InSeq(DecDigits, c) \/ c \in {"$", "%"}
        THEN LET r == ParseNumber(src, start, build)
             IN  IF r.out = "Ok"
                 THEN LexResult(Token("NumberLiteral", r.val, "", start, r.pos), r.pos, "Ok")
                 ELSE LexResult(TokenDefault, r.pos, r.out)
        ELSE IF c = ";"
        THEN LET r == SkipComment(src, start)
             IN  IF r.out = "Ok" THEN LexNextToken(src, r.pos, build)
                 ELSE LexResult(TokenDefault, r.pos, r.out)
        ELSE IF c = ":"
        THEN LexResult(Token("Colon", 0, "", start, start + 1), start + 1, "Ok")
        ELSE LexResult(TokenDefault, start, "Panic")

(***************************************************************************)
(* Parser (parser/parser.rs).  The table of parse_instruction: one row     *)
(* <<mnemonic, form, first atom, second atom, opcode, operand>> per match  *)
(* arm.  An atom pattern is "n" for Atom::NumOrSym(n), the register name   *)
(* for Atom::Reg, "" for Atom::None or no atom.                            *)
(***************************************************************************)
OpcodeTable ==
    {
      <<"NOP", "None", "", "", 0, "">>, <<"ANDCC", "Imm1", "n", "", 1, "Imm">>,
      <<"ORCC", "Imm1", "n", "", 2, "Imm">>, <<"CLRA", "None", "", "", 5, "">>,
      <<"NEGA", "None", "", "", 6, "">>, <<"INCA", "None", "", "", 7, "">>,
      <<"DECA", "None", "", "", 8, "">>, <<"TSTA", "None", "", "", 9, "">>,
      <<"COMA", "None", "", "", 10, "">>, <<"LSLA", "None", "", "", 11, "">>,
      <<"LSRA", "None", "", "", 12, "">>, <<"ROLA", "None", "", "", 13, "">>,
      <<"RORA", "None", "", "", 14, "">>, <<"ASRA", "None", "", "", 15, "">>,
      <<"PSHA", "None", "", "", 16, "">>, <<"PSHX", "None", "", "", 17, "">>,
      <<"PSHY", "None", "", "", 18, "">>, <<"PSHC", "None", "", "", 19, "">>,
      <<"PULA", "None", "", "", 20, "">>, <<"PULX", "None", "", "", 21, "">>,
      <<"PULY", "None", "", "", 22, "">>, <<"PULC", "None", "", "", 23, "">>,
      <<"TFR", "Two", "A", "CC", 24, "">>, <<"TFR", "Two", "CC", "A", 25, "">>,
      <<"TFR", "Two", "X", "Y", 26, "">>, <<"TFR", "Two", "Y", "X", 27, "">>,
      <<"TFR", "Two", "X", "SP", 28, "">>, <<"TFR", "Two", "SP", "X", 29, "">>,
      <<"TFR", "Two", "Y", "SP", 30, "">>, <<"TFR", "Two", "SP", "Y", 31, "">>,
      <<"BSR", "One", "n", "", 32, "RelAdr">>, <<"BRA", "One", "n", "", 33, "RelAdr">>,
      <<"BMI", "One", "n", "", 34, "RelAdr">>, <<"BPL", "One", "n", "", 35, "RelAdr">>,
      <<"BEQ", "One", "n", "", 36, "RelAdr">>, <<"BNE", "One", "n", "", 37, "RelAdr">>,
      <<"BVS", "One", "n", "", 38, "RelAdr">>, <<"BVC", "One", "n", "", 39, "RelAdr">>,
      <<"BCS", "One", "n", "", 40, "RelAdr">>, <<"BCC", "One", "n", "", 41, "RelAdr">>,
      <<"BHI", "One", "n", "", 42, "RelAdr">>, <<"BLS", "One", "n", "", 43, "RelAdr">>,
      <<"BGT", "One", "n", "", 44, "RelAdr">>, <<"BGE", "One", "n", "", 45, "RelAdr">>,
      <<"BLE", "One", "n", "", 46, "RelAdr">>, <<"BLT", "One", "n", "", 47, "RelAdr">>,
      <<"STX", "One", "n", "", 48, "AbsAdr">>, <<"STY", "One", "n", "", 49, "AbsAdr">>,
      <<"STSP", "One", "n", "", 50, "AbsAdr">>, <<"JMP", "One", "n", "", 51, "AbsAdr">>,
      <<"JSR", "One", "n", "", 52, "AbsAdr">>, <<"CLR", "One", "n", "", 53, "AbsAdr">>,
      <<"NEG", "One", "n", "", 54, "AbsAdr">>, <<"INC", "One", "n", "", 55, "AbsAdr">>,
      <<"DEC", "One", "n", "", 56, "AbsAdr">>, <<"TST", "One", "n", "", 57, "AbsAdr">>,
      <<"COM", "One", "n", "", 58, "AbsAdr">>, <<"LSL", "One", "n", "", 59, "AbsAdr">>,
      <<"LSR", "One", "n", "", 60, "AbsAdr">>, <<"ROL", "One", "n", "", 61, "AbsAdr">>,
      <<"ROR", "One", "n", "", 62, "AbsAdr">>, <<"ASR", "One", "n", "", 63, "AbsAdr">>,
      <<"STX", "Two", "n", "SP", 64, "N">>, <<"STY", "Two", "n", "SP", 65, "N">>,
      <<"STSP", "Two", "n", "SP", 66, "N">>, <<"RTS", "None", "", "", 67, "">>,
      <<"RTI", "None", "", "", 68, "">>, <<"CLR", "Two", "n", "SP", 69, "N">>,
      <<"NEG", "Two", "n", "SP", 70, "N">>, <<"INC", "Two", "n", "SP", 71, "N">>,
      <<"DEC", "Two", "n", "SP", 72, "N">>, <<"TST", "Two", "n", "SP", 73, "N">>,
      <<"COM", "Two", "n", "SP", 74, "N">>, <<"LSL", "Two", "n", "SP", 75, "N">>,
      <<"LSR", "Two", "n", "SP", 76, "N">>, <<"ROL", "Two", "n", "SP", 77, "N">>,
      <<"ROR", "Two", "n", "SP", 78, "N">>, <<"ASR", "Two", "n", "SP", 79, "N">>,
      <<"STX", "Two", "n", "X", 80, "N">>, <<"STY", "Two", "n", "X", 81, "N">>,
      <<"STSP", "Two", "n", "X", 82, "N">>, <<"JMP", "Two", "n", "X", 83, "N">>,
      <<"JSR", "Two", "n", "X", 84, "N">>, <<"CLR", "Two", "n", "X", 85, "N">>,
      <<"NEG", "Two", "n", "X", 86, "N">>, <<"INC", "Two", "n", "X", 87, "N">>,
      <<"DEC", "Two", "n", "X", 88, "N">>, <<"TST", "Two", "n", "X", 89, "N">>,
      <<"COM", "Two", "n", "X", 90, "N">>, <<"LSL", "Two", "n", "X", 91, "N">>,
      <<"LSR", "Two", "n", "X", 92, "N">>, <<"ROL", "Two", "n", "X", 93, "N">>,
      <<"ROR", "Two", "n", "X", 94, "N">>, <<"ASR", "Two", "n", "X", 95, "N">>,
      <<"STX", "Two", "A", "X", 96, "">>, <<"STY", "Two", "A", "X", 97, "">>,
      <<"STSP", "Two", "A", "X", 98, "">>, <<"JMP", "Two", "A", "X", 99, "">>,
      <<"JSR", "Two", "A", "X", 100, "">>, <<"CLR", "Two", "A", "X", 101, "">>,
      <<"NEG", "Two", "A", "X", 102, "">>, <<"INC", "Two", "A", "X", 103, "">>,
      <<"DEC", "Two", "A", "X", 104, "">>, <<"TST", "Two", "A", "X", 105, "">>,
      <<"COM", "Two", "A", "X", 106, "">>, <<"LSL", "Two", "A", "X", 107, "">>,
      <<"LSR", "Two", "A", "X", 108, "">>, <<"ROL", "Two", "A", "X", 109, "">>,
      <<"ROR", "Two", "A", "X", 110, "">>, <<"ASR", "Two", "A", "X", 111, "">>,
      <<"STX", "Two", "n", "Y", 112, "N">>, <<"STY", "Two", "n", "Y", 113, "N">>,
      <<"STSP", "Two", "n", "Y", 114, "N">>, <<"JMP", "Two", "n", "Y", 115, "N">>,
      <<"JSR", "Two", "n", "Y", 116, "N">>, <<"CLR", "Two", "n", "Y", 117, "N">>,
      <<"NEG", "Two", "n", "Y", 118, "N">>, <<"INC", "Two", "n", "Y", 119, "N">>,
      <<"DEC", "Two", "n", "Y", 120, "N">>, <<"TST", "Two", "n", "Y", 121, "N">>,
      <<"COM", "Two", "n", "Y", 122, "N">>, <<"LSL", "Two", "n", "Y", 123, "N">>,
      <<"LSR", "Two", "n", "Y", 124, "N">>, <<"ROL", "Two", "n", "Y", 125, "N">>,
      <<"ROR", "Two", "n", "Y", 126, "N">>, <<"ASR", "Two", "n", "Y", 127, "N">>,
      <<"STX", "Two", "A", "Y", 128, "">>, <<"STY", "Two", "A", "Y", 129, "">>,
      <<"STSP", "Two", "A", "Y", 130, "">>, <<"JMP", "Two", "A", "Y", 131, "">>,
      <<"JSR", "Two", "A", "Y", 132, "">>, <<"CLR", "Two", "A", "Y", 133, "">>,
      <<"NEG", "Two", "A", "Y", 134, "">>, <<"INC", "Two", "A", "Y", 135, "">>,
      <<"DEC", "Two", "A", "Y", 136, "">>, <<"TST", "Two", "A", "Y", 137, "">>,
      <<"COM", "Two", "A", "Y", 138, "">>, <<"LSL", "Two", "A", "Y", 139, "">>,
      <<"LSR", "Two", "A", "Y", 140, "">>, <<"ROL", "Two", "A", "Y", 141, "">>,
      <<"ROR", "Two", "A", "Y", 142, "">>, <<"ASR", "Two", "A", "Y", 143, "">>,
      <<"LDX", "Imm1", "n", "", 144, "Imm">>, <<"LDY", "Imm1", "n", "", 145, "Imm">>,
      <<"LDSP", "Imm1", "n", "", 146, "Imm">>, <<"SBCA", "Imm1", "n", "", 147, "Imm">>,
      <<"SUBA", "Imm1", "n", "", 148, "Imm">>, <<"ADCA", "Imm1", "n", "", 149, "Imm">>,
      <<"ADDA", "Imm1", "n", "", 150, "Imm">>, <<"CMPA", "Imm1", "n", "", 151, "Imm">>,
      <<"BITA", "Imm1", "n", "", 152, "Imm">>, <<"ANDA", "Imm1", "n", "", 153, "Imm">>,
      <<"ORA", "Imm1", "n", "", 154, "Imm">>, <<"EORA", "Imm1", "n", "", 155, "Imm">>,
      <<"CMPX", "Imm1", "n", "", 156, "Imm">>, <<"CMPY", "Imm1", "n", "", 157, "Imm">>,
      <<"CMPSP", "Imm1", "n", "", 158, "Imm">>, <<"EXG", "Two", "A", "CC", 159, "">>,
      <<"LDX", "One", "n", "", 160, "AbsAdr">>, <<"LDY", "One", "n", "", 161, "AbsAdr">>,
      <<"LDSP", "One", "n", "", 162, "AbsAdr">>, <<"SBCA", "One", "n", "", 163, "AbsAdr">>,
      <<"SUBA", "One", "n", "", 164, "AbsAdr">>, <<"ADCA", "One", "n", "", 165, "AbsAdr">>,
      <<"ADDA", "One", "n", "", 166, "AbsAdr">>, <<"CMPA", "One", "n", "", 167, "AbsAdr">>,
      <<"BITA", "One", "n", "", 168, "AbsAdr">>, <<"ANDA", "One", "n", "", 169, "AbsAdr">>,
      <<"ORA", "One", "n", "", 170, "AbsAdr">>, <<"EORA", "One", "n", "", 171, "AbsAdr">>,
      <<"CMPX", "One", "n", "", 172, "AbsAdr">>, <<"CMPY", "One", "n", "", 173, "AbsAdr">>,
      <<"CMPSP", "One", "n", "", 174, "AbsAdr">>, <<"EXG", "Two", "X", "Y", 175, "">>,
      <<"LDX", "Two", "n", "SP", 176, "N">>, <<"LDY", "Two", "n", "SP", 177, "N">>,
      <<"LDSP", "Two", "n", "SP", 178, "N">>, <<"SBCA", "Two", "n", "SP", 179, "N">>,
      <<"SUBA", "Two", "n", "SP", 180, "N">>, <<"ADCA", "Two", "n", "SP", 181, "N">>,
      <<"ADDA", "Two", "n", "SP", 182, "N">>, <<"CMPA", "Two", "n", "SP", 183, "N">>,
      <<"BITA", "Two", "n", "SP", 184, "N">>, <<"ANDA", "Two", "n", "SP", 185, "N">>,
      <<"ORA", "Two", "n", "SP", 186, "N">>, <<"EORA", "Two", "n", "SP", 187, "N">>,
      <<"CMPX", "Two", "n", "SP", 188, "N">>, <<"CMPY", "Two", "n", "SP", 189, "N">>,
      <<"LEASP", "Two", "n", "SP", 190, "N">>, <<"EXG", "Two", "X", "SP", 191, "">>,
      <<"LDX", "Two", "n", "X", 192, "N">>, <<"LDY", "Two", "n", "X", 193, "N">>,
      <<"LDSP", "Two", "n", "X", 194, "N">>, <<"SBCA", "Two", "n", "X", 195, "N">>,
      <<"SUBA", "Two", "n", "X", 196, "N">>, <<"ADCA", "Two", "n", "X", 197, "N">>,
      <<"ADDA", "Two", "n", "X", 198, "N">>, <<"CMPA", "Two", "n", "X", 199, "N">>,
      <<"BITA", "Two", "n", "X", 200, "N">>, <<"ANDA", "Two", "n", "X", 201, "N">>,
      <<"ORA", "Two", "n", "X", 202, "N">>, <<"EORA", "Two", "n", "X", 203, "N">>,
      <<"LEAX", "Two", "n", "X", 204, "N">>, <<"LEAY", "Two", "n", "Y", 205, "N">>,
      <<"LEASP", "Two", "n", "X", 206, "N">>, <<"EXG", "Two", "Y", "SP", 207, "">>,
      <<"LDX", "Two", "n", "Y", 208, "N">>, <<"LDY", "Two", "n", "Y", 209, "N">>,
      <<"LDSP", "Two", "n", "Y", 210, "N">>, <<"SBCA", "Two", "n", "Y", 211, "N">>,
      <<"SUBA", "Two", "n", "Y", 212, "N">>, <<"ADCA", "Two", "n", "Y", 213, "N">>,
      <<"ADDA", "Two", "n", "Y", 214, "N">>, <<"CMPA", "Two", "n", "Y", 215, "N">>,
      <<"BITA", "Two", "n", "Y", 216, "N">>, <<"ANDA", "Two", "n", "Y", 217, "N">>,
      <<"ORA", "Two", "n", "Y", 218, "N">>, <<"EORA", "Two", "n", "Y", 219, "N">>,
      <<"LEAX", "Two", "n", "SP", 220, "N">>, <<"LEAY", "Two", "n", "SP", 221, "N">>,
      <<"LEASP", "Two", "n", "Y", 222, "N">>, <<"STA", "One", "n", "", 225, "AbsAdr">>,
      <<"STA", "Two", "n", "SP", 226, "N">>, <<"STA", "Two", "n", "X", 227, "N">>,
      <<"STA", "Two", "A", "X", 228, "">>, <<"STA", "Two", "", "XPlus", 229, "">>,
      <<"STA", "Two", "", "XMinus", 230, "">>, <<"STA", "Two", "", "PlusX", 231, "">>,
      <<"STA", "Two", "", "MinusX", 232, "">>, <<"STA", "Two", "n", "Y", 233, "N">>,
      <<"STA", "Two", "A", "Y", 234, "">>, <<"STA", "Two", "", "YPlus", 235, "">>,
      <<"STA", "Two", "", "YMinus", 236, "">>, <<"STA", "Two", "", "PlusY", 237, "">>,
      <<"STA", "Two", "", "MinusY", 238, "">>, <<"LDA", "Imm1", "n", "", 240, "Imm">>,
      <<"LDA", "One", "n", "", 241, "AbsAdr">>, <<"LDA", "Two", "n", "SP", 242, "N">>,
      <<"LDA", "Two", "n", "X", 243, "N">>, <<"LDA", "Two", "A", "X", 244, "">>,
      <<"LDA", "Two", "", "XPlus", 245, "">>, <<"LDA", "Two", "", "XMinus", 246, "">>,
      <<"LDA", "Two", "", "PlusX", 247, "">>, <<"LDA", "Two", "", "MinusX", 248, "">>,
      <<"LDA", "Two", "n", "Y", 249, "N">>, <<"LDA", "Two", "A", "Y", 250, "">>,
      <<"LDA", "Two", "", "YPlus", 251, "">>, <<"LDA", "Two", "", "YMinus", 252, "">>,
      <<"LDA", "Two", "", "PlusY", 253, "">>, <<"LDA", "Two", "", "MinusY", 254, "">> }

\* the shape of an atom as the match arms of parse_instruction see it
AtomKey(atom) ==
    CASE atom.k \in {"Num", "Sym"} -> "n"
      [] atom.k = "Reg" -> atom.s
      [] OTHER -> ""

Span(start, end) == [start |-> start, end |-> end]

PxIdle ==
    [phase |-> "idle", src |-> <<>>, build |-> "debug", pos |-> 0,
     curr_tok |-> TokenDefault, prev_tok |-> TokenDefault, lines |-> <<>>,
     toks |-> <<>>, out |-> "Ok", err |-> "", span |-> NoSpan]

\* Parser::from_source, in a binary of the given build profile
FromSource(src, build) ==
    [PxIdle EXCEPT !.phase = "start", !.src = src, !.build = build]

\* no panic, no endless loop and no Err so far
Running(p) == p.out = "Ok" /\ p.err = ""

\* Parser::advance; toks records the tokens next_token returned
Advance(p0) ==
    Bind(p0, LAMBDA p :
        IF ~Running(p) THEN p
        ELSE Bind(LexNextToken(p.src, p.pos, p.build), LAMBDA r :
                IF r.out = "Ok"
                THEN [p EXCEPT !.prev_tok = p.curr_tok, !.curr_tok = r.tok,
                               !.pos = r.pos, !.toks = Append(@, r.tok)]
                ELSE [p EXCEPT !.out = r.out, !.pos = r.pos]))

\* Err(self.err(msg, span)) leaving the parser through `?`
Err(p, msg, span) == IF ~Running(p) THEN p ELSE [p EXCEPT !.err = msg, !.span = span]

\* an unfinished todo!() or a failed expect_*
ParserPanic(p) == IF ~Running(p) THEN p ELSE [p EXCEPT !.out = "Panic"]

ParseAtom(p0) ==
    Bind(p0, LAMBDA p :
        LET t == p.curr_tok
        IN  IF ~Running(p) THEN [p |-> p, atom |-> AtomNone]
            ELSE CASE t.kind = "NamedLiteral" -> [p |-> Advance(p), atom |-> Reg(t.str)]
                   [] t.kind = "NumberLiteral" -> [p |-> Advance(p), atom |-> Num(t.num)]
                   [] t.kind = "Sym" -> [p |-> Advance(p), atom |-> Sym(t.str)]
                   [] OTHER -> [p |-> Err(p, "Expected operand", Span(t.start, t.end)),
                                atom |-> AtomNone])

OperandForm(p, form, a1, a2) == [p |-> p, form |-> form, a1 |-> a1, a2 |-> a2]

ParseOperands(p0) ==
    Bind(p0, LAMBDA p :
        LET kind == p.curr_tok.kind
        IN  IF ~Running(p) THEN OperandForm(p, "None", AtomNone, AtomNone)
            ELSE IF kind = "ImmediatePrefix"
            THEN Bind(ParseAtom(Advance(p)), LAMBDA r :
                    OperandForm(r.p, "Imm1", r.atom, AtomNone))
            ELSE IF kind \in {"NamedLiteral", "NumberLiteral", "Sym"}
            THEN Bind(ParseAtom(p), LAMBDA r1 :
                    IF Running(r1.p) /\ r1.p.curr_tok.kind = "Comma"
                    THEN Bind(ParseAtom(Advance(r1.p)), LAMBDA r2 :
                            OperandForm(r2.p, "Two", r1.atom, r2.atom))
                    ELSE OperandForm(r1.p, "One", r1.atom, AtomNone))
            ELSE IF kind = "Comma"
            THEN Bind(ParseAtom(Advance(p)), LAMBDA r :
                    OperandForm(r.p, "Two", AtomNone, r.atom))
            ELSE OperandForm(p, "None", AtomNone, AtomNone))

\* the line a parse function returns nothing for
NoLine == SymLine("", NoSpan)

ParseInstruction(p0) ==
    Bind(p0, LAMBDA p :
      Bind(ParseOperands(Advance(p)), LAMBDA ops :
        LET start == p.curr_tok.start
            ins == p.curr_tok.str
            q == ops.p
            rows == { e \in OpcodeTable :
                        /\ e[1] = ins /\ e[2] = ops.form
                        /\ e[3] = AtomKey(ops.a1) /\ e[4] = AtomKey(ops.a2) }
            row == CHOOSE e \in rows : TRUE
        IN  IF ~Running(q) THEN [p |-> q, line |-> NoLine]
            ELSE IF rows = {}
            THEN [p |-> Err(q, "Invalid operand form for instruction",
                            Span(q.prev_tok.start, q.curr_tok.end)),
                  line |-> NoLine]
            ELSE [p |-> q,
                  line |-> InsLine(row[5],
                                   IF row[6] = "" THEN <<>>
                                   ELSE <<Operand(row[6], ops.a1)>>,
                                   Span(start, q.prev_tok.end))]))

\* the loop of the Fcb arm of parse_directive
RECURSIVE ParseFcbArgs(_, _)
ParseFcbArgs(p0, args0) ==
    Bind(<<p0, args0>>, LAMBDA pa :
        LET p == pa[1]
            args == pa[2]
        IN  IF ~Running(p) \/ p.curr_tok.kind \notin {"NumberLiteral", "Sym"}
            THEN [p |-> p, args |-> args]
            ELSE Bind(ParseAtom(p), LAMBDA r :
                    IF Running(r.p) /\ r.p.curr_tok.kind = "Comma"
                    THEN ParseFcbArgs(Advance(r.p), Append(args, r.atom))
                    ELSE [p |-> r.p, args |-> Append(args, r.atom)]))

ParseDirective(p0) ==
    Bind(p0, LAMBDA p :
      Bind(Advance(p), LAMBDA q :
        LET start_pos == p.curr_tok.start
            name == p.curr_tok.str
            span == Span(start_pos, q.curr_tok.end)
        IN  IF ~Running(q) THEN [p |-> q, line |-> NoLine]
            ELSE CASE name = "Org" ->
                        IF q.curr_tok.kind \in {"NumberLiteral", "Sym"}
                        THEN Bind(ParseAtom(q), LAMBDA one :
                                [p |-> one.p, line |-> DirLine("Org", <<one.atom>>, span)])
                        ELSE [p |-> Err(q, "Expected number or symbol", span),
                              line |-> NoLine]
                   [] name = "Equ" ->
                        IF q.curr_tok.kind \in {"NumberLiteral", "Sym"}
                        THEN Bind(ParseAtom(q), LAMBDA one :
                                [p |-> one.p, line |-> DirLine("Equ", <<one.atom>>, span)])
                        ELSE [p |-> Err(q, "Expected number or symbol",
                                        Span(q.curr_tok.start, q.curr_tok.end)),
                              line |-> NoLine]
                   [] name = "Fcb" ->
                        Bind(ParseFcbArgs(q, <<>>), LAMBDA list :
                            [p |-> list.p,
                             line |-> DirLine("Fcb", list.args,
                                              Span(start_pos, list.p.prev_tok.end))])
                   [] OTHER -> [p |-> ParserPanic(q), line |-> NoLine]))

\* one iteration of the loop of parse ended in parser state q, with the
\* line it pushed when it got that far
AfterLine(q, line) ==
    IF Running(q) THEN [q EXCEPT !.lines = Append(@, line)]
    ELSE [q EXCEPT !.phase = "done"]

\* assemble maps an Err of parse to AssembleError::Parse and returns it; a
\* panic or an endless loop returns nothing
AssembleAfter(q, a) ==
    IF q.out = "Ok" /\ q.err # "" THEN Fail(a, ParseErr(q.err, 0)) ELSE a

\* parse: "Initialize the first token"
ParseStart ==
    /\ px.phase = "start"
    /\ \E q \in {Advance(px)} :
           /\ px' = IF Running(q) THEN [q EXCEPT !.phase = "lines"]
                    ELSE [q EXCEPT !.phase = "done"]
           /\ asm' = AssembleAfter(q, asm)
    /\ UNCHANGED <<mem, s19, rd, fm, cpu, call>>

ParseInstructionLine ==
    /\ px.phase = "lines" /\ px.curr_tok.kind = "Instruction"
    /\ \E r \in {ParseInstruction(px)} :
           px' = AfterLine(r.p, r.line) /\ asm' = AssembleAfter(r.p, asm)
    /\ UNCHANGED <<mem, s19, rd, fm, cpu, call>>

ParseSymbolLine ==
    /\ px.phase = "lines" /\ px.curr_tok.kind = "Sym"
    /\ \E q \in {Advance(px)} :
         \E q2 \in {IF Running(q) /\ q.curr_tok.kind = "Colon" THEN Advance(q) ELSE q} :
           /\ px' = AfterLine(q2, SymLine(px.curr_tok.str,
                                          Span(px.curr_tok.start, px.curr_tok.end)))
           /\ asm' = AssembleAfter(q2, asm)
    /\ UNCHANGED <<mem, s19, rd, fm, cpu, call>>

ParseDirectiveLine ==
    /\ px.phase = "lines" /\ px.curr_tok.kind = "Directive"
    /\ \E r \in {ParseDirective(px)} :
           px' = AfterLine(r.p, r.line) /\ asm' = AssembleAfter(r.p, asm)
    /\ UNCHANGED <<mem, s19, rd, fm, cpu, call>>

\* the `_ => todo!` arm of the loop
ParseTodo ==
    /\ px.phase = "lines"
    /\ px.curr_tok.kind \notin {"Eof", "Instruction", "Sym", "Directive"}
    /\ px' = [ParserPanic(px) EXCEPT !.phase = "done"]
    /\ UNCHANGED <<mem, asm, s19, rd, fm, cpu, call>>

\* the loop ends at Eof: parse returns the lines and assemble starts pass 1
ParseEof ==
    /\ px.phase = "lines" /\ px.curr_tok.kind = "Eof"
    /\ px' = [px EXCEPT !.phase = "done"]
    /\ asm' = AsmStart(px.lines)
    /\ UNCHANGED <<mem, s19, rd, fm, cpu, call>>

NextParse ==
    \/ ParseStart \/ ParseInstructionLine \/ ParseSymbolLine
    \/ ParseDirectiveLine \/ ParseTodo \/ ParseEof

(***************************************************************************)
(* emit_s19 (codegen/mod.rs): one step per iteration of the loop over the  *)
(* addresses, then the code after the loop.                                *)
(***************************************************************************)
\* the payload length at which the loop starts a new record
RecordMax == 30

\* Option<u8>
None == <<>>
Some(x) == <<x>>

\* a create_s1_record that leaves out the byte at end
CreateS1Record_DropLast(m, start, end) ==
    [kind |-> "S1", address |-> start,
     data |-> [i \in 1 .. (end - start) |-> m[start + i - 1]]]

CreateS1Record(m, start, end) ==
    [kind |-> "S1", address |-> start,
     data |-> [i \in 1 .. (end - start + 1) |-> m[start + i - 1]]]

\* Record::S9(Address16(start_addr))
S9Record(start_addr) == [kind |-> "S9", address |-> start_addr, data |-> <<>>]

S19Idle ==
    [phase |-> "idle", mem |-> MemoryDefault.data, addr |-> 0, null_count |-> 0,
     seq_start |-> None, records |-> <<>>]

\* emit_s19(image) entered
S19Start(image) == [S19Idle EXCEPT !.phase = "loop", !.mem = image]

\* the iteration for a zero byte
S19Zero ==
    /\ s19.phase = "loop" /\ s19.addr < MemSize
    /\ s19.mem[s19.addr] = 0
    /\ LET null_count == s19.null_count + 1
           flush == null_count = 2 /\ s19.seq_start # None
       IN  s19' = [s19 EXCEPT
                     !.addr = @ + 1,
                     !.null_count = null_count,
                     !.records = IF flush
                                 THEN Append(@, CreateS1Record(s19.mem, s19.seq_start[1],
                                                               s19.addr - 2))
                                 ELSE @,
                     !.seq_start = IF flush THEN None ELSE @]
    /\ UNCHANGED <<mem, asm, px, rd, fm, cpu, call>>

\* the iteration for a non-zero byte
S19NonZero ==
    /\ s19.phase = "loop" /\ s19.addr < MemSize
    /\ s19.mem[s19.addr] # 0
    /\ LET fresh == s19.null_count >= 2 \/ s19.seq_start = None
           split == ~fresh /\ s19.addr - s19.seq_start[1] = RecordMax
       IN  s19' = [s19 EXCEPT
                     !.addr = @ + 1,
                     !.null_count = 0,
                     !.records = IF split
                                 THEN Append(@, CreateS1Record(s19.mem, s19.seq_start[1],
                                                               s19.addr - 1))
                                 ELSE @,
                     !.seq_start = IF fresh \/ split THEN Some(s19.addr) ELSE @]
    /\ UNCHANGED <<mem, asm, px, rd, fm, cpu, call>>

\* after the loop: the open block up to 255, then the S9 record
S19Finish ==
    /\ s19.phase = "loop" /\ s19.addr = MemSize
    /\ LET flushed == IF s19.seq_start # None
                      THEN Append(s19.records,
                                  CreateS1Record(s19.mem, s19.seq_start[1], MemSize - 1))
                      ELSE s19.records
           start_addr == s19.mem[MemSize - 1]
       IN  s19' = [s19 EXCEPT
                     !.phase = "done",
                     !.records = IF start_addr # 0
                                 THEN Append(flushed, S9Record(start_addr))
                                 ELSE flushed]
    /\ UNCHANGED <<mem, asm, px, rd, fm, cpu, call>>

NextS19 == S19Zero \/ S19NonZero \/ S19Finish

(***************************************************************************)
(* parse_s19 (flisp-core/src/s19.rs) on the records emit_s19 returned:     *)
(* one step per record.  The text between the two, written by              *)
(* srec::generate_srec_file and read by srec::read_records, is not part    *)
(* of the repository; the reader is handed the records themselves.         *)
(***************************************************************************)
RdIdle ==
    [phase |-> "idle", build |-> "debug", records |-> <<>>, idx |-> 0,
     mem |-> MemoryDefault.data, out |-> "Ok"]

\* the address the S1 arm computes for the i-th byte (i counts from 0):
\* s.address.0 as u8 + i as u8
S1Address(rec, i, build) == U8Arith(rec.address + (i % U8Mod), build)

\* an S1 arm whose address of the i-th byte is one too high
WriteS1_OffByOne(m, rec, build) ==
    LET idx == 0 .. (Len(rec.data) - 1)
        last(a) == CHOOSE i \in idx :
                     /\ S1Address(rec, i + 1, build).val = a
                     /\ \A j \in idx : S1Address(rec, j + 1, build).val = a => j <= i
    IN  [mem |-> [a \in Addr |->
                    IF \E i \in idx : S1Address(rec, i + 1, build).val = a
                    THEN rec.data[last(a) + 1] ELSE m[a]],
         out |-> "Ok"]

\* the S1 arm: the loop over s.data stores byte i at S1Address, a later
\* byte overwriting an earlier one stored at the same address
WriteS1(m, rec, build) ==
    LET idx == 0 .. (Len(rec.data) - 1)
        last(a) == CHOOSE i \in idx :
                     /\ S1Address(rec, i, build).val = a
                     /\ \A j \in idx : S1Address(rec, j, build).val = a => j <= i
    IN  IF idx # {} /\ rec.address > U8Max THEN [mem |-> m, out |-> "AddrTooLarge"]
        ELSE IF \E i \in idx : S1Address(rec, i, build).out # "Ok"
        THEN [mem |-> m, out |-> "Panic"]
        ELSE [mem |-> [a \in Addr |->
                         IF \E i \in idx : S1Address(rec, i, build).val = a
                         THEN rec.data[last(a) + 1] ELSE m[a]],
              out |-> "Ok"]

\* the S9 arm
WriteS9(m, rec) ==
    IF rec.address <= U8Max
    THEN [mem |-> [m EXCEPT ![U8Max] = rec.address], out |-> "Ok"]
    ELSE [mem |-> m, out |-> "AddrTooLarge"]

\* parse_s19 is called on what emit_s19 returned
ParseS19Start ==
    /\ s19.phase = "done" /\ rd.phase = "idle"
    /\ \E build \in Builds :
         rd' = [RdIdle EXCEPT !.phase = "read", !.build = build,
                              !.records = s19.records, !.idx = 1]
    /\ UNCHANGED <<mem, asm, px, s19, fm, cpu, call>>

\* one iteration of `for record in records`
ParseS19Record ==
    /\ rd.phase = "read" /\ rd.idx <= Len(rd.records)
    /\ \E r \in { IF rd.records[rd.idx].kind = "S1"
                  THEN WriteS1(rd.mem, rd.records[rd.idx], rd.build)
                  ELSE WriteS9(rd.mem, rd.records[rd.idx]) } :
         rd' = [rd EXCEPT !.mem = r.mem, !.out = r.out,
                          !.idx = IF r.out = "Ok" THEN @ + 1 ELSE @,
                          !.phase = IF r.out = "Ok" THEN @ ELSE "done"]
    /\ UNCHANGED <<mem, asm, px, s19, fm, cpu, call>>

\* Ok(mem)
ParseS19Done ==
    /\ rd.phase = "read" /\ rd.idx > Len(rd.records)
    /\ rd' = [rd EXCEPT !.phase = "done"]
    /\ UNCHANGED <<mem, asm, px, s19, fm, cpu, call>>

NextParseS19 == ParseS19Start \/ ParseS19Record \/ ParseS19Done

(***************************************************************************)
(* emit_fmem (codegen/mod.rs) and parse_fmem, in its two versions          *)
(* (flisp-core/src/fmem.rs and cli/src/fmem.rs).  A text is the sequence   *)
(* of its lines, each a sequence of one-character strings: emit_fmem       *)
(* separates the lines by "\n" and str::lines gives them back.  The spans  *)
(* of the errors, used for the report only, are left out.                  *)
(***************************************************************************)
HexDigits ==
    <<"0", "1", "2", "3", "4", "5", "6", "7", "8", "9", "A", "B", "C", "D", "E", "F">>

\* format!("{:02X}", b)
Hex2(b) == <<HexDigits[(b \div 16) + 1], HexDigits[(b % 16) + 1]>>

\* the file name handed to emit_fmem
FmemFileName == <<"t", ".", "f", "m", "e", "m">>

\* the lines of the header: format!("File: {file_name}\n\n # ClearAllMemory\n # ClearAllRegisters")
FmemHeader ==
    << <<"F", "i", "l", "e", ":", " ">> \o FmemFileName,
       <<>>,
       <<" ", "#", " ", "C", "l", "e", "a", "r", "A", "l", "l", "M", "e", "m", "o", "r", "y">>,
       <<" ", "#", " ", "C", "l", "e", "a", "r", "A", "l", "l",
         "R", "e", "g", "i", "s", "t", "e", "r", "s">> >>

\* format!("\n #setMemory  {:02X}={:02X}", adr, byte) without the line feed
SetMemoryLine(adr, byte) ==
    <<" ", "#", "s", "e", "t", "M", "e", "m", "o", "r", "y", " ", " ">>
        \o Hex2(adr) \o <<"=">> \o Hex2(byte)

\* the addresses of the non-zero bytes of an image, in ascending order
NonZero(image) ==
    LET S == {a \in Byte : image[a] # 0}
    IN  [k \in 1 .. Cardinality(S) |->
            CHOOSE a \in S : Cardinality({b \in S : b < a}) = k - 1]

EmitFmemLines(image) ==
    Bind(NonZero(image),
         LAMBDA adrs : FmemHeader \o [k \in 1 .. Len(adrs) |->
                                         SetMemoryLine(adrs[k], image[adrs[k]])])

\* str::trim_start
RECURSIVE TrimStart(_)
TrimStart(l) == IF l # <<>> /\ Head(l) \in Whitespace THEN TrimStart(Tail(l)) ELSE l

\* str::trim_end
RECURSIVE TrimEnd(_)
TrimEnd(l) ==
    IF l # <<>> /\ l[Len(l)] \in Whitespace THEN TrimEnd(SubSeq(l, 1, Len(l) - 1)) ELSE l

\* str::trim
Trim(l) == TrimEnd(TrimStart(l))

\* str::starts_with
StartsWith(l, prefix) == Len(l) >= Len(prefix) /\ SubSeq(l, 1, Len(prefix)) = prefix

\* the number of characters before the first one of the set S, Len(l) if none
FindIn(l, S) ==
    IF \E i \in 1 .. Len(l) : l[i] \in S
    THEN (CHOOSE i \in 1 .. Len(l) : l[i] \in S /\ \A j \in 1 .. (i - 1) : l[j] \notin S) - 1
    ELSE Len(l)

\* l[n..]
From(l, n) == SubSeq(l, n + 1, Len(l))

\* the first two items of l.split('='); the second is NoPart when there is none
NoPart == <<"\n">>
SplitEq(l) ==
    LET n == FindIn(l, {"="})
        rest == From(l, n + 1)
    IN  [adr |-> SubSeq(l, 1, n),
         val |-> IF n = Len(l) THEN NoPart ELSE SubSeq(rest, 1, FindIn(rest, {"="}))]

\* hex_digit, -1 for None
HexDigit(c) ==
    IF InSeq(DecDigits, c) THEN Offset(DecDigits, c)
    ELSE IF InSeq(HexLower, c) THEN Offset(HexLower, c) + 10
    ELSE IF InSeq(HexUpper, c) THEN Offset(HexUpper, c) + 10
    ELSE -1

\* hex_byte, -1 for Err
HexByte(two) ==
    IF Len(two) # 2 \/ HexDigit(two[1]) = -1 \/ HexDigit(two[2]) = -1 THEN -1
    ELSE HexDigit(two[1]) * 16 + HexDigit(two[2])

\* what one line does to the parse: the image after it, or the error
FmemLine(m, cam, car, e) ==
    [mem |-> m, clear_all_memory |-> cam, clear_all_registers |-> car, err |-> e]

\* the part of both parse_fmem after the directive: <adr>=<val>
SetMemory(f, adr, val) ==
    IF val = NoPart THEN [f EXCEPT !.err = "expected <adr>=<val>"]
    ELSE IF Len(adr) # 2 THEN [f EXCEPT !.err = "address must be exactly two hex digits"]
    ELSE IF Len(val) # 2 THEN [f EXCEPT !.err = "value must be exactly two hex digits"]
    ELSE IF HexByte(adr) = -1 \/ HexByte(val) = -1 THEN [f EXCEPT !.err = "invalid hex digit"]
    ELSE [f EXCEPT !.mem[HexByte(adr)] = HexByte(val)]

\* flisp-core: parse_directive and the body of the loop of parse_fmem
CoreParseLine(f, line) ==
    LET trimmed == TrimStart(line)
        after_hash == TrimStart(Tail(trimmed))
        directive_name_end == FindIn(after_hash, Whitespace)
        directive_name == SubSeq(after_hash, 1, directive_name_end)
        parts == SplitEq(TrimStart(From(after_hash, directive_name_end)))
    IN  IF ~StartsWith(trimmed, <<"#">>) THEN f
        ELSE IF directive_name = <<"s", "e", "t", "M", "e", "m", "o", "r", "y">>
        THEN SetMemory(f, Trim(parts.adr),
                       IF parts.val = NoPart THEN NoPart ELSE Trim(parts.val))
        ELSE IF directive_name
                  = <<"C", "l", "e", "a", "r", "A", "l", "l", "M", "e", "m", "o", "r", "y">>
        THEN [f EXCEPT !.clear_all_memory = TRUE]
        ELSE IF directive_name
                  = <<"C", "l", "e", "a", "r", "A", "l", "l",
                      "R", "e", "g", "i", "s", "t", "e", "r", "s">>
        THEN [f EXCEPT !.clear_all_registers = TRUE]
        ELSE [f EXCEPT !.err = "unknown directive"]

\* cli: parse_directive and the body of the loop of parse_fmem
CliPrefix == <<"#", "s", "e", "t", "M", "e", "m", "o", "r", "y", " ">>
CliParseLine(f, line) ==
    LET trimmed == TrimStart(line)
        parts == SplitEq(From(trimmed, Len(CliPrefix)))
    IN  IF ~StartsWith(trimmed, <<"#">>) THEN f
        ELSE IF StartsWith(trimmed, CliPrefix) THEN SetMemory(f, parts.adr, parts.val)
        ELSE [f EXCEPT !.err = "unknown directive"]

FmIdle ==
    [phase |-> "idle", parser |-> "core", image |-> MemoryDefault.data, lines |-> <<>>,
     idx |-> 0, res |-> FmemLine(MemoryDefault.data, FALSE, FALSE, "")]

\* an image is about to be written and read back by one of the two parse_fmem
FmStart(image, parser) == [FmIdle EXCEPT !.phase = "emit", !.image = image, !.parser = parser]

\* emit_fmem, and parse_fmem up to its loop
EmitFmem ==
    /\ fm.phase = "emit"
    /\ fm' = [fm EXCEPT !.phase = "parse", !.lines = EmitFmemLines(fm.image), !.idx = 1]
    /\ UNCHANGED <<mem, asm, px, s19, rd, cpu, call>>

\* one iteration of the loop of flisp-core's parse_fmem
CoreFmemLine ==
    /\ fm.phase = "parse" /\ fm.parser = "core" /\ fm.idx <= Len(fm.lines)
    /\ \E r \in {CoreParseLine(fm.res, fm.lines[fm.idx])} :
         fm' = [fm EXCEPT !.res = r, !.idx = IF r.err = "" THEN @ + 1 ELSE @,
                          !.phase = IF r.err = "" THEN @ ELSE "done"]
    /\ UNCHANGED <<mem, asm, px, s19, rd, cpu, call>>

\* one iteration of the loop of cli's parse_fmem
CliFmemLine ==
    /\ fm.phase = "parse" /\ fm.parser = "cli" /\ fm.idx <= Len(fm.lines)
    /\ \E r \in {CliParseLine(fm.res, fm.lines[fm.idx])} :
         fm' = [fm EXCEPT !.res = r, !.idx = IF r.err = "" THEN @ + 1 ELSE @,
                          !.phase = IF r.err = "" THEN @ ELSE "done"]
    /\ UNCHANGED <<mem, asm, px, s19, rd, cpu, call>>

\* Ok(..) after the last line
ParseFmemDone ==
    /\ fm.phase = "parse" /\ fm.idx > Len(fm.lines)
    /\ fm' = [fm EXCEPT !.phase = "done"]
    /\ UNCHANGED <<mem, asm, px, s19, rd, cpu, call>>

NextFmem == EmitFmem \/ CoreFmemLine \/ CliFmemLine \/ ParseFmemDone

(***************************************************************************)
(* The interpreter (src/program.rs, src/register.rs).  A Program is the    *)
(* record of its fields; clk_count, a u32, is kept as two 16-bit halves    *)
(* because it can exceed the integers TLC computes with.  The instructions *)
(* executed are the family Modelled; the size and time table is complete.  *)
(***************************************************************************)
LogCap == 20
ResetVector == 255

\* CCFlag
CCFlagI == 16
CCFlagN == 8
CCFlagV == 4
CCFlagZ == 2
CCFlagC == 1

\* the marker of the table entry whose time is todo!()
Todo == -1

\* u8::bit(7)
Bit7(v) == v >= 128

\* CCFlags::set
CCSet(data, flag, value) ==
    LET on == (data \div flag) % 2 = 1
    IN  IF value THEN (IF on THEN data ELSE data + flag)
        ELSE (IF on THEN data - flag ELSE data)

\* CCFlags::get
CCGet(data, flag) == (data \div flag) % 2 = 1

\* register.rs add: <<sum, c, v>>
RegAdd(x, y, cin) ==
    LET s == x + y + (IF cin THEN 1 ELSE 0)
        r == s % U8Mod
    IN  <<r, s >= U8Mod,
          (Bit7(r) /\ ~Bit7(x) /\ ~Bit7(y)) \/ (~Bit7(r) /\ Bit7(x) /\ Bit7(y))>>

\* register.rs sub: <<diff, c, v>>
RegSub(x, y) ==
    LET r == (x - y) % U8Mod
    IN  <<r, x < y,
          (Bit7(r) /\ ~Bit7(x) /\ ~Bit7(y)) \/ (~Bit7(r) /\ Bit7(x) /\ Bit7(y))>>

\* register.rs sub_c: <<diff, c, v>>
RegSubC(x, y, cin) ==
    LET d1 == (x - y) % U8Mod
        b == IF cin THEN 1 ELSE 0
        r == (d1 - b) % U8Mod
    IN  <<r, x < y \/ d1 < b,
          (Bit7(r) /\ ~Bit7(x) /\ ~Bit7(y)) \/ (~Bit7(r) /\ Bit7(x) /\ Bit7(y))>>

\* the operators &, | and ^ of u8, bit by bit
Bit(v, i) == (v \div 2^i) % 2
BitAnd(x, y) ==
    LET f[i \in 0 .. 8] ==
            IF i = 8 THEN 0 ELSE (IF Bit(x, i) + Bit(y, i) = 2 THEN 2^i ELSE 0) + f[i + 1]
    IN  f[0]
BitOr(x, y) ==
    LET f[i \in 0 .. 8] ==
            IF i = 8 THEN 0 ELSE (IF Bit(x, i) + Bit(y, i) > 0 THEN 2^i ELSE 0) + f[i + 1]
    IN  f[0]
BitXor(x, y) ==
    LET f[i \in 0 .. 8] ==
            IF i = 8 THEN 0 ELSE (IF Bit(x, i) + Bit(y, i) = 1 THEN 2^i ELSE 0) + f[i + 1]
    IN  f[0]

\* RegisterStore::default
RegisterStoreDefault ==
    [a |-> 0, x |-> 0, y |-> 0, r |-> 0, i |-> 0, sp |-> 0, pc |-> 0, ta |-> 0,
     cc |-> 0, ld |-> 0]

\* a u32 as its two halves
U32(hi, lo) == [hi |-> hi, lo |-> lo]

\* self.clk_count += n, for n below 2^16: overflow panics in a debug build and wraps in a
\* release build
ClkAdd(c, n, build) ==
    LET lo == c.lo + n
        hi == c.hi + (lo \div U16Mod)
    IN  [val |-> U32(hi % U16Mod, lo % U16Mod),
         out |-> IF hi < U16Mod \/ build = "release" THEN "Ok" ELSE "Panic"]

\* the order of u32
ClkLeq(c, d) == c.hi < d.hi \/ (c.hi = d.hi /\ c.lo <= d.lo)

\* Program::default; out is "Ok" until a panic ends the process
ProgramDefault ==
    [source_memory |-> [a \in Addr |-> 0], memory |-> [a \in Addr |-> 0],
     debug_logs |-> <<>>, reg |-> RegisterStoreDefault, q_state |-> "Reset",
     clk_count |-> U32(0, 0), exit |-> FALSE, out |-> "Ok"]

\* Program::load_memory
LoadMemory(p, data) == [p EXCEPT !.memory = data, !.source_memory = data]

\* Program::debug_log with the other comparison
DebugLog_Greater(p, msg) ==
    [p EXCEPT !.debug_logs =
        Append(IF Len(p.debug_logs) > LogCap THEN Tail(p.debug_logs) ELSE p.debug_logs, msg)]

\* Program::debug_log
DebugLog(p, msg) ==
    [p EXCEPT !.debug_logs =
        Append(IF Len(p.debug_logs) >= LogCap THEN Tail(p.debug_logs) ELSE p.debug_logs, msg)]

\* get_instruction_size_and_time: <<size, clock_cycles>>, the first arm that matches
InstructionTable ==
    <<
       <<1, 2>>, <<2, 4>>, <<2, 4>>, <<0, 0>>, <<0, 0>>, <<1, 3>>, <<1, 3>>, <<1, 3>>,
       <<1, 3>>, <<1, 2>>, <<1, 3>>, <<1, 3>>, <<1, 3>>, <<1, 3>>, <<1, 3>>, <<1, 3>>,
       <<1, 3>>, <<1, 3>>, <<1, 3>>, <<1, 3>>, <<1, 3>>, <<1, 3>>, <<1, 3>>, <<1, 3>>,
       <<1, 2>>, <<1, 2>>, <<1, 2>>, <<1, 2>>, <<1, 2>>, <<1, 2>>, <<1, 2>>, <<1, 2>>,
       <<2, 5>>, <<2, 4>>, <<2, 4>>, <<2, 4>>, <<2, 4>>, <<2, 4>>, <<2, 4>>, <<2, 4>>,
       <<2, 4>>, <<2, 4>>, <<2, 4>>, <<2, 4>>, <<2, 4>>, <<2, 4>>, <<2, 4>>, <<2, 4>>,
       <<2, 3>>, <<2, 3>>, <<2, 3>>, <<2, 2>>, <<2, 4>>, <<2, 3>>, <<2, 4>>, <<2, 4>>,
       <<2, 4>>, <<2, 3>>, <<2, 4>>, <<2, 4>>, <<2, 4>>, <<2, 4>>, <<2, 4>>, <<2, 4>>,
       <<2, 3>>, <<2, 3>>, <<2, 3>>, <<1, 2>>, <<1, 6>>, <<2, 3>>, <<2, 4>>, <<2, 4>>,
       <<2, 4>>, <<2, 3>>, <<2, 4>>, <<2, 4>>, <<2, 4>>, <<2, 4>>, <<2, 4>>, <<2, 4>>,
       <<2, 3>>, <<2, 3>>, <<2, 3>>, <<2, 4>>, <<2, 5>>, <<2, 3>>, <<2, 4>>, <<2, 4>>,
       <<2, 4>>, <<2, 3>>, <<2, 4>>, <<2, 4>>, <<2, 4>>, <<2, 4>>, <<2, 4>>, <<2, 4>>,
       <<1, 3>>, <<1, 3>>, <<1, 3>>, <<1, 4>>, <<1, 5>>, <<1, 3>>, <<1, 4>>, <<1, 4>>,
       <<1, 4>>, <<1, 3>>, <<1, 4>>, <<1, 4>>, <<1, 4>>, <<1, 4>>, <<1, 4>>, <<1, 4>>,
       <<2, 3>>, <<2, 3>>, <<2, 3>>, <<2, 4>>, <<2, 5>>, <<2, 3>>, <<2, 4>>, <<2, 4>>,
       <<2, 4>>, <<2, 3>>, <<2, 4>>, <<2, 4>>, <<2, 4>>, <<2, 4>>, <<2, 4>>, <<2, 4>>,
       <<1, 3>>, <<1, 3>>, <<1, 3>>, <<1, 4>>, <<1, 5>>, <<1, 3>>, <<1, 4>>, <<1, 4>>,
       <<1, 4>>, <<1, 3>>, <<1, 4>>, <<1, 4>>, <<1, 4>>, <<1, 4>>, <<1, 4>>, <<1, 4>>,
       <<2, 2>>, <<2, 2>>, <<2, 2>>, <<2, 4>>, <<2, 4>>, <<2, 4>>, <<2, 4>>, <<2, 3>>,
       <<2, 3>>, <<2, 4>>, <<2, 4>>, <<2, 4>>, <<2, 3>>, <<2, 3>>, <<2, 3>>, <<1, 4>>,
       <<2, 3>>, <<2, 3>>, <<2, 3>>, <<2, 5>>, <<2, 5>>, <<2, 5>>, <<2, 5>>, <<2, 4>>,
       <<2, 4>>, <<2, 5>>, <<2, 5>>, <<2, 5>>, <<2, 4>>, <<2, 4>>, <<2, 4>>, <<1, 4>>,
       <<2, 3>>, <<2, 3>>, <<2, 3>>, <<2, 5>>, <<2, 5>>, <<2, 5>>, <<2, 5>>, <<2, 4>>,
       <<2, 4>>, <<2, 5>>, <<2, 5>>, <<2, 5>>, <<2, 4>>, <<2, 4>>, <<2, 4>>, <<1, 4>>,
       <<2, 3>>, <<2, 3>>, <<2, 3>>, <<2, 5>>, <<2, 5>>, <<2, Todo>>, <<2, 5>>, <<2, 4>>,
       <<2, 4>>, <<2, 5>>, <<2, 5>>, <<2, 5>>, <<2, 4>>, <<2, 4>>, <<2, 4>>, <<1, 4>>,
       <<2, 3>>, <<2, 3>>, <<2, 3>>, <<2, 5>>, <<2, 5>>, <<2, 5>>, <<2, 5>>, <<2, 4>>,
       <<2, 4>>, <<2, 5>>, <<2, 5>>, <<2, 5>>, <<2, 4>>, <<2, 4>>, <<2, 4>>, <<0, 0>>,
       <<0, 0>>, <<2, 3>>, <<2, 3>>, <<2, 3>>, <<1, 3>>, <<1, 4>>, <<1, 4>>, <<1, 4>>,
       <<1, 4>>, <<2, 3>>, <<1, 3>>, <<1, 4>>, <<1, 4>>, <<1, 4>>, <<1, 4>>, <<0, 0>>,
       <<2, 2>>, <<2, 3>>, <<2, 3>>, <<2, 3>>, <<1, 3>>, <<1, 4>>, <<1, 4>>, <<1, 4>>,
       <<1, 4>>, <<2, 3>>, <<1, 3>>, <<1, 4>>, <<1, 4>>, <<1, 4>>, <<1, 4>>, <<0, 0>>
    >>

\* get_instruction_size_and_time where the undefined opcodes cost one byte and two cycles
GetInstructionSizeAndTime_Nop(instruction) ==
    IF InstructionTable[instruction + 1][1] = 0 THEN <<1, 2>>
    ELSE InstructionTable[instruction + 1]

GetInstructionSizeAndTime(instruction) == InstructionTable[instruction + 1]

\* the opcodes next_instruction names as invalid
InvalidOpcodes == {3, 4, 223, 224, 239, 255}

\* the opcodes whose arms are modelled
Modelled ==
    { 0, 5, 7, 8, 11, 12, 13, 14, 15, 16, 17, 18, 19, 20, 21, 22, 23, 24,
      32, 33, 34, 35, 36, 37, 38, 39, 40, 41, 42, 43, 44, 45, 46, 47, 51,
      52, 53, 55, 56, 59, 60, 61, 62, 63, 67, 69, 71, 72, 75, 76, 77, 78,
      79, 83, 84, 85, 87, 88, 91, 92, 93, 94, 95, 99, 100, 101, 103, 104,
      107, 108, 109, 110, 111, 115, 116, 117, 119, 120, 123, 124, 125, 126,
      127, 131, 132, 133, 135, 136, 139, 140, 141, 142, 143, 144, 145, 146,
      147, 148, 149, 150, 151, 153, 154, 155, 156, 157, 158, 159, 160, 161,
      162, 163, 164, 165, 166, 167, 169, 170, 171, 172, 173, 174, 175, 176,
      177, 178, 179, 180, 181, 182, 183, 185, 186, 187, 188, 189, 191, 192,
      193, 194, 195, 196, 197, 198, 199, 201, 202, 203, 207, 208, 209, 210,
      211, 212, 213, 214, 215, 217, 218, 219, 225, 240, 241, 242, 243, 244,
      245, 246, 247, 248, 249, 250, 251, 252, 253, 254 }

\* set_lda_flags, set_ldx_flags, set_ldy_flags, set_ldsp_flags for the register value v
SetLdFlags(cc, v) == CCSet(CCSet(CCSet(cc, CCFlagN, Bit7(v)), CCFlagZ, v = 0), CCFlagV, FALSE)

\* set_inc_flags
SetIncFlags(cc, new_val, v) ==
    CCSet(CCSet(CCSet(cc, CCFlagN, Bit7(new_val)), CCFlagZ, new_val = 0), CCFlagV, v)

\* set_add_flags, set_suba_flags, set_sbc_flags and set_cmp_flags
SetArithFlags(cc, result, c, v) ==
    CCSet(CCSet(CCSet(CCSet(cc, CCFlagN, Bit7(result)), CCFlagZ, result = 0),
                CCFlagC, c), CCFlagV, v)

\* a set_lda_flags that leaves V as it is
LdA_KeepsV(p, v) ==
    [p EXCEPT !.reg.a = v,
              !.reg.cc = CCSet(CCSet(@, CCFlagN, Bit7(v)), CCFlagZ, v = 0)]

\* `reg.set(v)` followed by set_lda_flags, set_ldx_flags, set_ldy_flags or
\* set_ldsp_flags; set_anda_flags, set_ora_flags and set_eora_flags are set_lda_flags
\* for the result, which is in A
LdA(p, v) == [p EXCEPT !.reg.a = v, !.reg.cc = SetLdFlags(@, v)]

LdX(p, v) == [p EXCEPT !.reg.x = v, !.reg.cc = SetLdFlags(@, v)]

LdY(p, v) == [p EXCEPT !.reg.y = v, !.reg.cc = SetLdFlags(@, v)]

LdSp(p, v) == [p EXCEPT !.reg.sp = v, !.reg.cc = SetLdFlags(@, v)]

\* the byte after the opcode, and the operand of the modes #Data (opcodes 0x9_ and
\* 0xF0), Adr (0xA_), n,SP (0xB_), n,X (0xC_) and n,Y (0xD_)
ImmData(p) == p.memory[p.reg.pc]
AtIndex(p, r) == p.memory[RegAdd(ImmData(p), r, FALSE)[1]]
ModeData(p) ==
    LET mode == p.reg.i \div 16
    IN  CASE mode = 9 -> ImmData(p)
          [] mode = 10 -> p.memory[ImmData(p)]
          [] mode = 11 -> AtIndex(p, p.reg.sp)
          [] mode = 12 -> AtIndex(p, p.reg.x)
          [] mode = 13 -> AtIndex(p, p.reg.y)

\* the arms of SBCA, SUBA, ADDA and of CMPA, CMPX, CMPY, CMPSP for register value r
Sbca(p) ==
    LET res == RegSubC(p.reg.a, ModeData(p), (p.reg.cc \div CCFlagC) % 2 = 1)
    IN  [p EXCEPT !.reg.a = res[1], !.reg.cc = SetArithFlags(@, res[1], res[2], res[3])]
Suba(p) ==
    LET res == RegSub(p.reg.a, ModeData(p))
    IN  [p EXCEPT !.reg.a = res[1], !.reg.cc = SetArithFlags(@, res[1], res[2], res[3])]
Adda(p) ==
    LET res == RegAdd(p.reg.a, ModeData(p), FALSE)
    IN  [p EXCEPT !.reg.a = res[1], !.reg.cc = SetArithFlags(@, res[1], res[2], res[3])]
\* the arms of ADCA: Register::add_c, which calls add with cin = true
Adca(p) ==
    LET res == RegAdd(p.reg.a, ModeData(p), TRUE)
    IN  [p EXCEPT !.reg.a = res[1], !.reg.cc = SetArithFlags(@, res[1], res[2], res[3])]

Cmp(p, r) ==
    LET res == RegSub(r, ModeData(p))
    IN  [p EXCEPT !.reg.cc = SetArithFlags(@, res[1], res[2], res[3])]

\* register.rs shl and shr: <<result, c, v>>; shr_signed, rotate_left and
\* rotate_right: <<result, c>>
Shl(x) ==
    LET res == (2 * x) % U8Mod
    IN  <<res, Bit7(x), Bit7(x) # Bit7(res)>>

Shr(x) ==
    LET res == x \div 2
    IN  <<res, x % 2 = 1, Bit7(res) # Bit7(x)>>

ShrSigned(x) == <<(x \div 2) + (IF Bit7(x) THEN 128 ELSE 0), x % 2 = 1>>

RotateLeft(x) == <<((2 * x) % U8Mod) + (IF Bit7(x) THEN 1 ELSE 0), Bit7(x)>>

RotateRight(x) == <<(x \div 2) + (IF x % 2 = 1 THEN 128 ELSE 0), x % 2 = 1>>

\* set_lsr_flags
SetLsrFlags(cc, new_val, c, v) ==
    CCSet(CCSet(CCSet(CCSet(cc, CCFlagN, FALSE), CCFlagZ, new_val = 0),
                CCFlagV, v), CCFlagC, c)

\* set_rol_flags and set_ror_flags
SetRotFlags(cc, new_val, c) ==
    CCSet(CCSet(CCSet(CCSet(cc, CCFlagN, Bit7(new_val)), CCFlagZ, new_val = 0),
                CCFlagV, Bit(new_val, 6) # Bit(new_val, 7)), CCFlagC, c)

\* set_asr_flags
SetAsrFlags(cc, new_val, c) ==
    CCSet(CCSet(CCSet(CCSet(cc, CCFlagN, Bit7(new_val)), CCFlagZ, new_val = 0),
                CCFlagC, c), CCFlagV, FALSE)

\* a set_clr_flags that leaves C as it is
SetClrFlags_KeepsC(cc) == CCSet(CCSet(CCSet(cc, CCFlagN, FALSE), CCFlagZ, TRUE), CCFlagV, FALSE)

\* set_clr_flags
SetClrFlags(cc) ==
    CCSet(CCSet(CCSet(CCSet(cc, CCFlagN, FALSE), CCFlagZ, TRUE), CCFlagV, FALSE),
          CCFlagC, FALSE)

\* the address of the operand of the modes Adr (opcodes 0x3_), n,SP (0x4_), n,X (0x5_),
\* A,X (0x6_), n,Y (0x7_) and A,Y (0x8_)
EffAdr(p) ==
    LET mode == p.reg.i \div 16
    IN  CASE mode = 3 -> ImmData(p)
          [] mode = 4 -> RegAdd(ImmData(p), p.reg.sp, FALSE)[1]
          [] mode = 5 -> RegAdd(ImmData(p), p.reg.x, FALSE)[1]
          [] mode = 6 -> RegAdd(p.reg.a, p.reg.x, FALSE)[1]
          [] mode = 7 -> RegAdd(ImmData(p), p.reg.y, FALSE)[1]
          [] mode = 8 -> RegAdd(p.reg.a, p.reg.y, FALSE)[1]

\* the operand of an instruction on A (opcodes 0x0_) or on a memory byte, and the
\* state with the result written back and the flags set
RmwVal(p) == IF p.reg.i < 16 THEN p.reg.a ELSE p.memory[EffAdr(p)]

Rmw(p, new_val, cc) ==
    IF p.reg.i < 16 THEN [p EXCEPT !.reg.a = new_val, !.reg.cc = cc]
    ELSE [p EXCEPT !.memory[EffAdr(p)] = new_val, !.reg.cc = cc]

\* a push that stores at SP before it decrements SP
Push_StoreFirst(p, val) ==
    [p EXCEPT !.memory[p.reg.sp] = val, !.reg.sp = RegSub(@, 1)[1]]

\* the arms of PSHA, PSHX, PSHY and PSHC: `sp.dec()`, then `memory[sp].set(val)`
Push(p, val) ==
    LET sp == RegSub(p.reg.sp, 1)[1]
    IN  [p EXCEPT !.reg.sp = sp, !.memory[sp] = val]

\* the arms of PULA, PULX, PULY and PULC: the value at SP, and the `sp.inc()` after
\* the register has been set
PullVal(p) == p.memory[p.reg.sp]
PullInc(sp) == RegAdd(sp, 1, FALSE)[1]

\* the condition of the arm of a branch, 0x20 .. 0x2f, on the flags in CC
BranchTaken(op, cc) ==
    LET n == CCGet(cc, CCFlagN)
        v == CCGet(cc, CCFlagV)
        z == CCGet(cc, CCFlagZ)
        c == CCGet(cc, CCFlagC)
    IN  CASE op \in {32, 33} -> TRUE
          [] op = 34 -> n
          [] op = 35 -> ~n
          [] op = 36 -> z
          [] op = 37 -> ~z
          [] op = 38 -> v
          [] op = 39 -> ~v
          [] op = 40 -> c
          [] op = 41 -> ~c
          [] op = 42 -> ~(c \/ z)
          [] op = 43 -> c \/ z
          [] op = 44 -> ~((n # v) \/ z)
          [] op = 45 -> n = v
          [] op = 46 -> (n # v) \/ z
          [] op = 47 -> n # v

\* `offset = memory_at(pc); new_pc = pc + offset; pc.set(new_pc)`
Branch(p) == [p EXCEPT !.reg.pc = RegAdd(p.reg.pc, ImmData(p), FALSE)[1]]

\* the arm of the match of next_instruction for the opcode in I
Arm(p) ==
    LET instruction == p.reg.i
        data == p.memory[p.reg.pc]
    IN  CASE instruction \in InvalidOpcodes ->
               DebugLog(p, <<"Invalid instruction", instruction>>)
          [] instruction = 0 -> p
          [] instruction \in {5, 53, 69, 85, 101, 117, 133} ->
               Rmw(p, 0, SetClrFlags(p.reg.cc))
          [] instruction \in {7, 55, 71, 87, 103, 119, 135} ->
               LET res == RegAdd(RmwVal(p), 1, FALSE)
               IN  Rmw(p, res[1], SetIncFlags(p.reg.cc, res[1], res[3]))
          [] instruction \in {8, 56, 72, 88, 104, 120, 136} ->
               LET res == RegSub(RmwVal(p), 1)
               IN  Rmw(p, res[1], SetIncFlags(p.reg.cc, res[1], res[3]))
          [] instruction \in {11, 59, 75, 91, 107, 123, 139} ->
               LET res == Shl(RmwVal(p))
               IN  Rmw(p, res[1], SetArithFlags(p.reg.cc, res[1], res[2], res[3]))
          [] instruction \in {12, 60, 76, 92, 108, 124, 140} ->
               LET res == Shr(RmwVal(p))
               IN  Rmw(p, res[1], SetLsrFlags(p.reg.cc, res[1], res[2], res[3]))
          [] instruction \in {13, 61, 77, 93, 109, 125, 141} ->
               LET res == RotateLeft(RmwVal(p))
               IN  Rmw(p, res[1], SetRotFlags(p.reg.cc, res[1], res[2]))
          [] instruction \in {14, 62, 78, 94, 110, 126, 142} ->
               LET res == RotateRight(RmwVal(p))
               IN  Rmw(p, res[1], SetRotFlags(p.reg.cc, res[1], res[2]))
          [] instruction \in {15, 63, 79, 95, 111, 127, 143} ->
               LET res == ShrSigned(RmwVal(p))
               IN  Rmw(p, res[1], SetAsrFlags(p.reg.cc, res[1], res[2]))
          [] instruction = 16 -> Push(p, p.reg.a)
          [] instruction = 17 -> Push(p, p.reg.x)
          [] instruction = 18 -> Push(p, p.reg.y)
          [] instruction = 19 -> Push(p, p.reg.cc)
          [] instruction = 20 -> [p EXCEPT !.reg.a = PullVal(p), !.reg.sp = PullInc(@)]
          [] instruction = 21 -> [p EXCEPT !.reg.x = PullVal(p), !.reg.sp = PullInc(@)]
          [] instruction = 22 -> [p EXCEPT !.reg.y = PullVal(p), !.reg.sp = PullInc(@)]
          [] instruction = 23 -> [p EXCEPT !.reg.cc = PullVal(p), !.reg.sp = PullInc(@)]
          [] instruction = 24 -> [p EXCEPT !.reg.cc = p.reg.a]
          [] instruction = 32 -> Branch(Push(p, p.reg.pc))
          [] instruction \in 33 .. 47 ->
               IF BranchTaken(instruction, p.reg.cc) THEN Branch(p) ELSE p
          [] instruction \in {51, 83, 99, 115, 131} -> [p EXCEPT !.reg.pc = EffAdr(p)]
          [] instruction \in {52, 84, 100, 116, 132} ->
               LET q == Push(p, p.reg.pc)
               IN  [q EXCEPT !.reg.pc = EffAdr(q)]
          [] instruction = 67 ->
               [p EXCEPT !.reg.pc = p.memory[p.reg.sp], !.reg.sp = RegAdd(@, 1, FALSE)[1]]
          [] instruction \in {144, 160, 176, 192, 208} -> LdX(p, ModeData(p))
          [] instruction \in {145, 161, 177, 193, 209} -> LdY(p, ModeData(p))
          [] instruction \in {146, 162, 178, 194, 210} -> LdSp(p, ModeData(p))
          [] instruction \in {147, 163, 179, 195, 211} -> Sbca(p)
          [] instruction \in {148, 164, 180, 196, 212} -> Suba(p)
          [] instruction \in {149, 165, 181, 197, 213} -> Adca(p)
          [] instruction \in {150, 166, 182, 198, 214} -> Adda(p)
          [] instruction \in {151, 167, 183, 199, 215} -> Cmp(p, p.reg.a)
          [] instruction \in {153, 169, 185, 201, 217} ->
               LdA(p, BitAnd(p.reg.a, ModeData(p)))
          [] instruction \in {154, 170, 186, 202, 218} ->
               LdA(p, BitOr(p.reg.a, ModeData(p)))
          [] instruction \in {155, 171, 187, 203, 219} ->
               LdA(p, BitXor(p.reg.a, ModeData(p)))
          [] instruction \in {156, 172, 188} -> Cmp(p, p.reg.x)
          [] instruction \in {157, 173, 189} -> Cmp(p, p.reg.y)
          [] instruction \in {158, 174} -> Cmp(p, p.reg.sp)
          [] instruction = 159 ->
               [p EXCEPT !.reg.a = p.reg.cc, !.reg.cc = BitAnd(p.reg.a, 15)]
          [] instruction = 175 -> [p EXCEPT !.reg.x = p.reg.y, !.reg.y = p.reg.x]
          [] instruction = 191 -> [p EXCEPT !.reg.x = p.reg.sp, !.reg.sp = p.reg.x]
          [] instruction = 207 -> [p EXCEPT !.reg.y = p.reg.sp, !.reg.sp = p.reg.y]
          [] instruction = 225 -> [p EXCEPT !.memory[data] = p.reg.a]
          [] instruction = 240 -> LdA(p, data)
          [] instruction = 241 -> LdA(p, p.memory[data])
          [] instruction = 242 -> LdA(p, AtIndex(p, p.reg.sp))
          [] instruction = 243 -> LdA(p, AtIndex(p, p.reg.x))
          [] instruction = 244 -> LdA(p, p.memory[RegAdd(p.reg.a, p.reg.x, FALSE)[1]])
          [] instruction = 245 ->
               LdA([p EXCEPT !.reg.x = RegAdd(@, 1, FALSE)[1]], p.memory[p.reg.x])
          [] instruction = 246 ->
               LdA([p EXCEPT !.reg.x = RegSub(@, 1)[1]], p.memory[p.reg.x])
          [] instruction = 247 ->
               LET x == RegAdd(p.reg.x, 1, FALSE)[1]
               IN  LdA([p EXCEPT !.reg.x = x], p.memory[x])
          [] instruction = 248 ->
               LET x == RegSub(p.reg.x, 1)[1]
               IN  LdA([p EXCEPT !.reg.x = x], p.memory[x])
          [] instruction = 249 -> LdA(p, RegAdd(data, p.reg.y, FALSE)[1])
          [] instruction = 250 -> LdA(p, RegAdd(p.reg.a, p.reg.y, FALSE)[1])
          [] instruction = 251 ->
               LdA([p EXCEPT !.reg.y = RegAdd(@, 1, FALSE)[1]], p.memory[p.reg.y])
          [] instruction = 252 ->
               LdA([p EXCEPT !.reg.y = RegSub(@, 1)[1]], p.memory[p.reg.y])
          [] instruction = 253 ->
               LET y == RegAdd(p.reg.y, 1, FALSE)[1]
               IN  LdA([p EXCEPT !.reg.y = y], p.memory[y])
          [] instruction = 254 ->
               LET y == RegSub(p.reg.y, 1)[1]
               IN  LdA([p EXCEPT !.reg.y = y], p.memory[y])
          [] OTHER -> [p EXCEPT !.out = "Unmodelled"]

\* Program::next_instruction
NextInstruction(p, build) ==
    LET st == GetInstructionSizeAndTime(p.reg.i)
        mem_use == st[1]
        clock_cycles == st[2]
    IN  IF clock_cycles = Todo \/ mem_use = 0 \/ clock_cycles = 0
        THEN [p EXCEPT !.out = "Panic"]
        ELSE Bind(Arm(p), LAMBDA q :
               IF q.out # "Ok" THEN q
               ELSE Bind(ClkAdd(q.clk_count, clock_cycles, build), LAMBDA c :
                      IF c.out # "Ok" THEN [q EXCEPT !.out = "Panic"]
                      ELSE [q EXCEPT !.clk_count = c.val,
                                     !.reg.pc = RegAdd(@, mem_use - 1, FALSE)[1]]))

\* Program::step where the Reset state also costs a clock cycle
Step_ResetTicks(p, build) ==
    IF p.q_state = "Reset"
    THEN [DebugLog(p, <<"RESET", p.memory[ResetVector]>>)
            EXCEPT !.reg.pc = p.memory[ResetVector], !.q_state = "Fetch",
                   !.clk_count = ClkAdd(@, 1, build).val]
    ELSE IF p.q_state = "Execute" THEN [p EXCEPT !.out = "Panic"]
    ELSE Bind(NextInstruction([p EXCEPT !.q_state = "Execute",
                                        !.reg.i = p.memory[p.reg.pc],
                                        !.reg.pc = RegAdd(@, 1, FALSE)[1]], build),
              LAMBDA q : IF q.out = "Ok" THEN [q EXCEPT !.q_state = "Fetch"] ELSE q)

\* Program::step; a panic leaves q_state as it is
Step(p, build) ==
    IF p.q_state = "Reset"
    THEN [DebugLog(p, <<"RESET", p.memory[ResetVector]>>)
            EXCEPT !.reg.pc = p.memory[ResetVector], !.q_state = "Fetch"]
    ELSE IF p.q_state = "Execute" THEN [p EXCEPT !.out = "Panic"]
    ELSE Bind(NextInstruction([p EXCEPT !.q_state = "Execute",
                                        !.reg.i = p.memory[p.reg.pc],
                                        !.reg.pc = RegAdd(@, 1, FALSE)[1]], build),
              LAMBDA q : IF q.out = "Ok" THEN [q EXCEPT !.q_state = "Fetch"] ELSE q)

\* Program::reset without the copy of source_memory
Reset_KeepsMemory(p, build) ==
    Step([p EXCEPT !.q_state = "Reset", !.clk_count = U32(0, 0)], build)

\* Program::reset
Reset(p, build) ==
    Step([p EXCEPT !.q_state = "Reset", !.memory = p.source_memory,
                   !.clk_count = U32(0, 0)], build)

MaxSteps == 5
MaxResets == 2
MaxLogCalls == 1
MaxRuns == 1
MaxLogSteps == 2
MaxLogResets == 1
MaxLogMsgs == 22
MaxStackSteps == 6
MaxLoadSteps == 7
MaxArithSteps == 8
MaxRmwSteps == 7
MaxBranchSteps == 4
MaxExgSteps == 9

\* the address the programs of the family start at, which their reset vector holds
CodeStart == 32

\* the image of a program: its bytes from CodeStart on and the reset vector
ProgramImage(code) ==
    [a \in Addr |-> IF a = ResetVector THEN CodeStart
                    ELSE IF a >= CodeStart /\ a < CodeStart + Len(code)
                    THEN code[a - CodeStart + 1] ELSE 0]

\* LDA #$85, STA $40, INC $40, INCA / LDSP #$50, LDA #$7F, PSHA, INCA /
\* LDA #$11, PSHA (SP is 0: the push goes to the reset vector), INC $FF /
\* LDX #$80, LDY #$01, STA $26, NOP (the store overwrites code) /
\* JMP $1F (with the address advance after the match this is a loop at CodeStart) /
\* LDSP #$50, JSR $30 and RTS at $30 and $31 /
\* LDX #$02, JMP $28,X / LDY #$02, LDSP #$50, JSR $28,Y /
\* LDA #$01 and an invalid opcode / LDA #$01 and the opcode whose time is todo!()
CpuPrograms ==
    { <<240, 133, 225, 64, 55, 64, 7>>,
      <<146, 80, 240, 127, 16, 7>>,
      <<240, 17, 16, 55, 255>>,
      <<144, 128, 145, 1, 225, 38, 0>>,
      <<51, 31>>,
      <<146, 80, 52, 48, 0, 0, 0, 0, 0, 0, 0, 0, 0, 0, 0, 0, 67, 67>>,
      <<144, 2, 83, 40>>,
      <<145, 2, 146, 80, 116, 40>>,
      <<240, 1, 197>> }
      \cup { <<240, 1, op>> : op \in InvalidOpcodes }

CpuImages == { ProgramImage(code) : code \in CpuPrograms }

\* the stack pointers and the register values of the push and pull programs
StackPointers == {0, 1, 128, 255}
StackValues == {0, 1, 128, 255}

\* LDSP #sp, then the register loaded with v (CC through TFR A,CC), pushed and pulled
StackPrograms ==
    UNION { { <<146, sp, 240, v, 16, 20>>, <<146, sp, 144, v, 17, 21>>,
              <<146, sp, 145, v, 18, 22>>, <<146, sp, 240, v, 24, 19, 23>> } :
            sp \in StackPointers, v \in StackValues }

\* the loads and the logical instructions, and those of them with an operand byte
LoadOpcodes ==
    UNION { {m + 0, m + 1, m + 2, m + 9, m + 10, m + 11} : m \in {144, 160, 176, 192, 208} }
        \cup (240 .. 254)
WithOperand == { op \in 0 .. U8Max : GetInstructionSizeAndTime(op)[1] = 2 }

\* the index register values, the condition codes and the operand bytes of the load
\* programs; 39 is the address of the byte the condition codes are loaded from
LoadIndexes == {0, 1, 255}
LoadFlags == {0, 31, 245}
LoadOperands == {0, 32, 39, 255}

\* X, Y and SP loaded with idx, CC with cc through A and TFR A,CC, then the instruction
LoadPrograms ==
    { <<144, idx, 145, idx, 146, idx, 240, cc, 24, op>>
        \o (IF op \in WithOperand THEN <<n>> ELSE <<>>) :
      idx \in LoadIndexes, cc \in LoadFlags, op \in LoadOpcodes, n \in LoadOperands }

\* SBCA, SUBA, ADDA, CMPA, CMPX, CMPY and CMPSP with an immediate operand
ArithOpcodes == {147, 148, 150, 151, 156, 157, 158}

\* ADCA with an immediate operand
AdcaOpcodes == {149}

\* the operands of the arithmetic programs: the ends of the unsigned and of the
\* signed range
ArithValues == {0, 1, 127, 128, 255}

\* C loaded with c through A and TFR A,CC, then X, Y, SP and A loaded with x, then
\* the instruction with the operand y
ArithPrograms ==
    { <<240, c, 24, 144, x, 145, x, 146, x, 240, x, op, y>> :
      c \in {0, 1}, x \in ArithValues, y \in ArithValues,
      op \in ArithOpcodes \cup AdcaOpcodes }

\* CLR, INC, DEC, LSL, LSR, ROL, ROR and ASR on A and on memory in the six modes
RmwOpcodes == { m + k : m \in {0, 48, 64, 80, 96, 112, 128}, k \in {5, 7, 8, 11, 12, 13, 14, 15} }

\* the operands and the condition codes of the programs for them, and the address of
\* the memory operand
RmwValues == {0, 1, 20, 32, 127, 128, 255}
RmwAdr == 128

\* X, Y and SP loaded with RmwAdr - cc, A and CC with cc, then the instruction; its
\* operand byte is RmwAdr for the mode Adr and cc for the modes n,R, so that with A = cc
\* the operand is the byte at RmwAdr in every mode
RmwProgram(op, cc) ==
    LET r == (RmwAdr - cc) % U8Mod
    IN  <<144, r, 145, r, 146, r, 240, cc, 24, op>>
            \o (IF op \notin WithOperand THEN <<>>
                ELSE IF op \div 16 = 3 THEN <<RmwAdr>> ELSE <<cc>>)

RmwImages ==
    { [ProgramImage(RmwProgram(op, cc)) EXCEPT ![RmwAdr] = IF op < 16 THEN 0 ELSE v] :
      op \in RmwOpcodes, cc \in RmwValues, v \in RmwValues }

\* the images a run draws from: all of CpuPrograms, the one of the loop, the push
\* and pull programs, the load programs, the arithmetic programs, or the programs of
\* the instructions that rewrite their operand
\* the exchanges, the condition codes, the values of A and those of X, Y and SP of
\* the exchange programs
ExgOpcodes == {159, 175, 191, 207}
ExgFlags == {0, 16, 21, 31}
ExgValues == {0, 15, 128, 255}
ExgIndexes == {<<1, 2, 3>>, <<0, 255, 128>>}

\* LDX #x, LDY #y, LDSP #s, LDA #c, TFR A,CC, LDA #a, then the exchange twice
ExgPrograms ==
    { <<144, r[1], 145, r[2], 146, r[3], 240, c, 24, 240, a, op, op>> :
        r \in ExgIndexes, c \in ExgFlags, a \in ExgValues, op \in ExgOpcodes }

ImagesOf(family) ==
    CASE family = "all" -> CpuImages
      [] family = "loop" -> {ProgramImage(<<51, 31>>)}
      [] family = "stack" -> { ProgramImage(code) : code \in StackPrograms }
      [] family = "loads" -> { ProgramImage(code) : code \in LoadPrograms }
      [] family = "arith" -> { ProgramImage(code) : code \in ArithPrograms }
      [] family = "rmw" -> RmwImages
      [] family = "exg" -> { ProgramImage(code) : code \in ExgPrograms }
      [] family = "assembled" ->
           IF asm.phase = "done" /\ asm.result = ResOk THEN {asm.memory.data} ELSE {}

CpuIdle ==
    [phase |-> "idle", build |-> "debug", image |-> MemoryDefault.data,
     p |-> ProgramDefault, prev |-> ProgramDefault, prev2 |-> ProgramDefault,
     twin |-> None, last |-> "new", last2 |-> "new",
     steps |-> 0, resets |-> 0, logs |-> 0, runs |-> 0,
     budget |-> [steps |-> 0, resets |-> 0, logs |-> 0, runs |-> 0, family |-> "all"]]

\* a new interpreter, before load_memory
CpuStart(build, budget) == [CpuIdle EXCEPT !.phase = "new", !.build = build, !.budget = budget]

\* load_memory(image) on the new interpreter
CpuLoadMemory ==
    /\ cpu.phase = "new"
    /\ \E image \in ImagesOf(cpu.budget.family) :
         cpu' = [cpu EXCEPT !.phase = "run", !.image = image,
                            !.prev2 = cpu.prev, !.last2 = cpu.last, !.prev = cpu.p,
                            !.p = LoadMemory(cpu.p, image), !.last = "load"]
    /\ UNCHANGED <<mem, asm, px, s19, rd, fm, call>>

\* the interpreter a reset is compared with steps in the same way
TwinStep(twin, build) == IF twin = None THEN None ELSE Some(Step(twin[1], build))

\* step()
CpuStep ==
    /\ cpu.phase = "run" /\ cpu.p.out = "Ok" /\ cpu.steps < cpu.budget.steps
    /\ \E q \in {Step(cpu.p, cpu.build)}, t \in {TwinStep(cpu.twin, cpu.build)} :
         /\ q.out # "Unmodelled"
         /\ IF t = None THEN TRUE ELSE t[1].out # "Unmodelled"
         /\ cpu' = [cpu EXCEPT !.prev2 = cpu.prev, !.last2 = cpu.last, !.prev = cpu.p,
                               !.p = q, !.twin = t, !.last = "step", !.steps = @ + 1]
    /\ UNCHANGED <<mem, asm, px, s19, rd, fm, call>>

\* reset(); from here on a fresh interpreter with the same image loaded runs beside it
CpuReset ==
    /\ cpu.phase = "run" /\ cpu.p.out = "Ok" /\ cpu.resets < cpu.budget.resets
    /\ cpu' = [cpu EXCEPT !.prev2 = cpu.prev, !.last2 = cpu.last, !.prev = cpu.p,
                          !.p = Reset(cpu.p, cpu.build),
                          !.twin = Some(LoadMemory(ProgramDefault, cpu.image)),
                          !.last = "reset", !.resets = @ + 1]
    /\ UNCHANGED <<mem, asm, px, s19, rd, fm, call>>

\* debug_log(msg); the messages are numbered
CpuDebugLog ==
    /\ cpu.phase = "run" /\ cpu.p.out = "Ok" /\ cpu.logs < cpu.budget.logs
    /\ cpu' = [cpu EXCEPT !.prev2 = cpu.prev, !.last2 = cpu.last, !.prev = cpu.p,
                          !.p = DebugLog(cpu.p, <<"msg", cpu.logs + 1>>),
                          !.last = "log", !.logs = @ + 1]
    /\ UNCHANGED <<mem, asm, px, s19, rd, fm, call>>

\* the clocks a run of steps is observed at: the last ones of u32
RunTargets == { U32(U16Mod - 1, U16Mod - c) : c \in 1 .. 5 }

\* target = clk + k * cost for some k >= 1
Reaches(clk, cost, target) ==
    /\ ClkLeq(clk, target) /\ clk # target
    /\ (((target.hi - clk.hi) % cost) * (U16Mod % cost) + (target.lo - clk.lo)) % cost = 0

\* the loop of execute(): many iterations of step() in a state where a step changes
\* nothing but the clock
CpuExecuteLoop ==
    /\ cpu.phase = "run" /\ cpu.p.out = "Ok" /\ cpu.p.q_state = "Fetch"
    /\ cpu.runs < cpu.budget.runs /\ cpu.twin = None
    /\ \E cost \in {GetInstructionSizeAndTime(cpu.p.memory[cpu.p.reg.pc])[2]} :
         /\ cost > 0
         /\ \E c \in {ClkAdd(cpu.p.clk_count, cost, cpu.build)} :
              /\ c.out = "Ok"
              /\ Step(cpu.p, cpu.build) = [cpu.p EXCEPT !.clk_count = c.val]
         /\ \E target \in RunTargets :
              /\ Reaches(cpu.p.clk_count, cost, target)
              /\ cpu' = [cpu EXCEPT !.prev2 = cpu.prev, !.last2 = cpu.last,
                                    !.prev = cpu.p, !.p.clk_count = target,
                                    !.last = "run", !.runs = @ + 1]
    /\ UNCHANGED <<mem, asm, px, s19, rd, fm, call>>

NextCpu == CpuLoadMemory \/ CpuStep \/ CpuReset \/ CpuDebugLog \/ CpuExecuteLoop

NextCpuLog == CpuLoadMemory \/ CpuStep \/ CpuReset \/ CpuDebugLog

(***************************************************************************)
(* Single calls.  The opcode tables of the two halves: a row of the        *)
(* parser's table is turned into the instruction line parse_instruction    *)
(* builds for it, and its opcode is looked up in the interpreter's table.  *)
(***************************************************************************)
CallIdle == [phase |-> "idle", f |-> "", build |-> "debug", arg |-> <<>>, res |-> <<>>]

CallStart(f, build, arg) ==
    [CallIdle EXCEPT !.phase = "arg", !.f = f, !.build = build, !.arg = arg]

\* AsmInstruction::size
InsSize(l) == 1 + Len(l.operands)

\* the line op0 / op1 of parse_instruction build for a row, for the operand atom a
RowLine(e, a) == InsLine(e[5], IF e[6] = "" THEN <<>> ELSE <<Operand(e[6], a)>>, NoSpan)

\* the size codegen gives the line of the row, and get_instruction_size_and_time of its opcode
LookupRow ==
    /\ call.phase = "arg" /\ call.f = "table"
    /\ call' = [call EXCEPT !.phase = "done",
                            !.res = [size |-> InsSize(RowLine(call.arg, Num(0))),
                                     st |-> GetInstructionSizeAndTime(call.arg[5])]]
    /\ UNCHANGED <<mem, asm, px, s19, rd, fm, cpu>>

(***************************************************************************)
(* Number literals: the three ways of writing a number v of 0 .. 255, and  *)
(* one call of parse_number on the text.                                   *)
(***************************************************************************)
RECURSIVE DecText(_)
DecText(v) ==
    IF v < 10 THEN <<DecDigits[v + 1]>> ELSE Append(DecText(v \div 10), DecDigits[(v % 10) + 1])

RECURSIVE BinText(_)
BinText(v) ==
    IF v < 2 THEN <<DecDigits[v + 1]>> ELSE Append(BinText(v \div 2), DecDigits[(v % 2) + 1])

\* a hex digit written with the letters of the sequence given (a-f or A-F)
HexChar(d, letters) == IF d < 10 THEN DecDigits[d + 1] ELSE letters[d - 9]

HexText(v, letters) ==
    IF v < 16 THEN <<HexChar(v, letters)>>
    ELSE <<HexChar(v \div 16, letters), HexChar(v % 16, letters)>>

Notations == {"dec", "hex", "HEX", "bin"}

Literal(v, notation) ==
    CASE notation = "dec" -> DecText(v)
      [] notation = "hex" -> <<"$">> \o HexText(v, HexLower)
      [] notation = "HEX" -> <<"$">> \o HexText(v, HexUpper)
      [] notation = "bin" -> <<"%">> \o BinText(v)

\* parse_number at the start of the literal
ParseLiteral ==
    /\ call.phase = "arg" /\ call.f = "parse_number"
    /\ call' = [call EXCEPT !.phase = "done",
                            !.res = ParseNumber(Literal(call.arg.v, call.arg.notation), 0,
                                                call.build)]
    /\ UNCHANGED <<mem, asm, px, s19, rd, fm, cpu>>

(***************************************************************************)
(* The programs assemble is run on: every sequence of at most MaxLines     *)
(* lines over LineAlphabet, all of them lines the parser can produce.      *)
(***************************************************************************)
LineAlphabet ==
    { SymLine("L1", NoSpan), SymLine("L2", NoSpan),
      DirLine("Org", <<Num(254)>>, NoSpan),
      DirLine("Org", <<Sym("L1")>>, NoSpan),
      DirLine("Fcb", <<Num(7)>>, NoSpan),
      DirLine("Fcb", <<Sym("L2"), Num(7)>>, NoSpan),
      DirLine("Equ", <<Num(252)>>, NoSpan),
      \* CLRA
      InsLine(5, <<>>, NoSpan),
      \* ADDA #1
      InsLine(150, <<Operand("Imm", Num(1))>>, NoSpan),
      \* JMP L1
      InsLine(51, <<Operand("AbsAdr", Sym("L1"))>>, NoSpan) }

Programs == UNION { [1 .. n -> LineAlphabet] : n \in 0 .. MaxLines }

InitAsm ==
    /\ mem = MemIdle /\ px = PxIdle /\ s19 = S19Idle
    /\ rd = RdIdle /\ fm = FmIdle /\ cpu = CpuIdle /\ call = CallIdle
    /\ \E p \in Programs : asm = AsmStart(p)

InitMem ==
    /\ mem = MemIdle /\ asm = AsmIdle /\ px = PxIdle /\ s19 = S19Idle
    /\ rd = RdIdle /\ fm = FmIdle /\ cpu = CpuIdle /\ call = CallIdle

SpecMem == InitMem /\ [][NextMem]_vars

SpecAsm == InitAsm /\ [][NextAsm]_vars

(***************************************************************************)
(* The sources the pipeline is run on: every text of at most MaxSrcLines   *)
(* lines over SourceLines joined by line feeds, and the program of the     *)
(* all_adda test cut down to one line per operand form.  Each text is      *)
(* assembled by a debug and by a release build.                            *)
(***************************************************************************)
MaxSrcLines == 2

SourceLines ==
    { <<"O", "R", "G", " ", "$", "2", "0">>,
      <<"O", "R", "G", " ", "$", "F", "F">>,
      <<"F", "C", "B", " ", "$", "2", "0">>,
      <<"A", "D", "D", "A", " ", "#", "1">>,
      <<"A", "D", "D", "A", " ", "1", "6">>,
      <<"A", "D", "D", "A", " ", "2", "5", "5">>,
      <<"A", "D", "D", "A", " ", "1", "0", ",", "S", "P">>,
      <<"A", "D", "D", "A", " ", "1", "0", ",", "X">>,
      <<"A", "D", "D", "A", " ", "1", "0", ",", "Y">>,
      <<"S", "U", "B", "A", " ", "1", "0", ",", "S", "P">>,
      <<"S", "U", "B", "A", " ", "1", "0", ",", "X">>,
      <<"S", "U", "B", "A", " ", "1", "0", ",", "Y">>,
      <<"L", ":", " ", "J", "M", "P", " ", "L">>,
      <<"C", "L", "R", "A">>,
      <<";", " ", "n", ",", "X">>,
      <<"R", "M", "B", " ", "1">> }

RECURSIVE Join(_)
Join(lines) ==
    IF Len(lines) = 0 THEN <<>>
    ELSE IF Len(lines) = 1 THEN lines[1]
    ELSE lines[1] \o <<"\n">> \o Join(Tail(lines))

\* ORG $20 / ADDA #1 / ADDA 16 / ORG $FF / FCB $20, laid out as in the test
AddaProgram ==
    <<"\n", " ", " ", " ", " ">> \o
    Join(<< <<"O", "R", "G", " ", "$", "2", "0">>,
            <<" ", " ", " ", " ", "A", "D", "D", "A", " ", "#", "1">>,
            <<" ", " ", " ", " ", "A", "D", "D", "A", " ", "1", "6">>,
            <<" ", " ", " ", " ", "O", "R", "G", " ", "$", "F", "F">>,
            <<" ", " ", " ", " ", "F", "C", "B", " ", "$", "2", "0">> >>)

Sources ==
    { Join(p) : p \in UNION { [1 .. n -> SourceLines] : n \in 0 .. MaxSrcLines } }
        \cup {AddaProgram}

InitPipeline ==
    /\ mem = MemIdle /\ asm = AsmIdle /\ s19 = S19Idle
    /\ rd = RdIdle /\ fm = FmIdle /\ cpu = CpuIdle /\ call = CallIdle
    /\ \E src \in Sources, build \in Builds : px = FromSource(src, build)

NextPipeline == NextParse \/ NextAsm

\* assemble(src): lexer, parser, pass 1, pass 2
SpecPipeline == InitPipeline /\ [][NextPipeline]_vars

(***************************************************************************)
(* The images emit_s19 is run on: one block of RunLens bytes starting at   *)
(* one of RunStarts, with at most MaxHoles of its bytes zeroed.            *)
(***************************************************************************)
MaxHoles == 3
RunStarts == {0, 3, 200}
RunLens == {1, 30, 31, 33, 54, 55, 56}
HoleOffsets == {1, 2, 29, 30, 31}

ImageOf(start, len, holes) ==
    [a \in Addr |-> IF a >= start /\ a < start + len /\ (a - start) \notin holes
                    THEN (a % U8Max) + 1 ELSE 0]

Images ==
    { ImageOf(start, len, holes) :
        start \in RunStarts, len \in RunLens,
        holes \in { h \in SUBSET HoleOffsets : Cardinality(h) <= MaxHoles } }

InitS19 ==
    /\ mem = MemIdle /\ asm = AsmIdle /\ px = PxIdle
    /\ rd = RdIdle /\ fm = FmIdle /\ cpu = CpuIdle /\ call = CallIdle
    /\ \E image \in Images : s19 = S19Start(image)

SpecS19 == InitS19 /\ [][NextS19]_vars

\* emit_s19 followed by parse_s19
SpecS19Round == InitS19 /\ [][NextS19 \/ NextParseS19]_vars

FmemParsers == {"core", "cli"}

InitFmem ==
    /\ mem = MemIdle /\ asm = AsmIdle /\ px = PxIdle /\ s19 = S19Idle
    /\ rd = RdIdle /\ cpu = CpuIdle /\ call = CallIdle
    /\ \E image \in Images, parser \in FmemParsers : fm = FmStart(image, parser)

\* emit_fmem followed by parse_fmem
SpecFmem == InitFmem /\ [][NextFmem]_vars

InitCpu ==
    /\ mem = MemIdle /\ asm = AsmIdle /\ px = PxIdle /\ s19 = S19Idle
    /\ rd = RdIdle /\ fm = FmIdle /\ call = CallIdle
    /\ \E build \in Builds :
         cpu = CpuStart(build, [steps |-> MaxSteps, resets |-> MaxResets,
                                logs |-> MaxLogCalls, runs |-> MaxRuns,
                                family |-> "all"])

\* load_memory, then step, reset, debug_log and the loop of execute in any order
SpecCpu == InitCpu /\ [][NextCpu]_vars

InitCpuLog ==
    /\ mem = MemIdle /\ asm = AsmIdle /\ px = PxIdle /\ s19 = S19Idle
    /\ rd = RdIdle /\ fm = FmIdle /\ call = CallIdle
    /\ \E build \in Builds :
         cpu = CpuStart(build, [steps |-> MaxLogSteps, resets |-> MaxLogResets,
                                logs |-> MaxLogMsgs, runs |-> 0,
                                family |-> "loop"])

\* the same calls with more debug_log than the log holds
SpecCpuLog == InitCpuLog /\ [][NextCpuLog]_vars

InitStack ==
    /\ mem = MemIdle /\ asm = AsmIdle /\ px = PxIdle /\ s19 = S19Idle
    /\ rd = RdIdle /\ fm = FmIdle /\ call = CallIdle
    /\ \E build \in Builds :
         cpu = CpuStart(build, [steps |-> MaxStackSteps, resets |-> 0, logs |-> 0,
                                runs |-> 0, family |-> "stack"])

NextStack == CpuLoadMemory \/ CpuStep

\* load_memory of a push and pull program, then steps
SpecStack == InitStack /\ [][NextStack]_vars

InitLoads ==
    /\ mem = MemIdle /\ asm = AsmIdle /\ px = PxIdle /\ s19 = S19Idle
    /\ rd = RdIdle /\ fm = FmIdle /\ call = CallIdle
    /\ \E build \in Builds :
         cpu = CpuStart(build, [steps |-> MaxLoadSteps, resets |-> 0, logs |-> 0,
                                runs |-> 0, family |-> "loads"])

\* load_memory of a load program, then steps
SpecLoads == InitLoads /\ [][NextStack]_vars

InitArith ==
    /\ mem = MemIdle /\ asm = AsmIdle /\ px = PxIdle /\ s19 = S19Idle
    /\ rd = RdIdle /\ fm = FmIdle /\ call = CallIdle
    /\ \E build \in Builds :
         cpu = CpuStart(build, [steps |-> MaxArithSteps, resets |-> 0, logs |-> 0,
                                runs |-> 0, family |-> "arith"])

\* load_memory of an arithmetic program, then steps
SpecArith == InitArith /\ [][NextStack]_vars

InitRmw ==
    /\ mem = MemIdle /\ asm = AsmIdle /\ px = PxIdle /\ s19 = S19Idle
    /\ rd = RdIdle /\ fm = FmIdle /\ call = CallIdle
    /\ \E build \in Builds :
         cpu = CpuStart(build, [steps |-> MaxRmwSteps, resets |-> 0, logs |-> 0,
                                runs |-> 0, family |-> "rmw"])

\* load_memory of a program that rewrites an operand, then steps
SpecRmw == InitRmw /\ [][NextStack]_vars

(***************************************************************************)
(* The sources of the branch programs: a branch to the address 16 or to a  *)
(* label, behind nothing or behind one instruction that sets the flags.    *)
(* The label stands on the first line, at address 0, or behind the LDA     *)
(* that follows the branch.  The reset vector of the image is 0, so that   *)
(* the interpreter starts with the first line.                             *)
(***************************************************************************)
BranchNames ==
    { <<"B", "S", "R">>,
      <<"B", "R", "A">>,
      <<"B", "M", "I">>,
      <<"B", "P", "L">>,
      <<"B", "E", "Q">>,
      <<"B", "N", "E">>,
      <<"B", "V", "S">>,
      <<"B", "V", "C">>,
      <<"B", "C", "S">>,
      <<"B", "C", "C">>,
      <<"B", "H", "I">>,
      <<"B", "L", "S">>,
      <<"B", "G", "T">>,
      <<"B", "G", "E">>,
      <<"B", "L", "E">>,
      <<"B", "L", "T">> }

\* the address the numeric branches are written with, and the number it reads as
BranchDigits == <<"1", "6">>
BranchTarget == (10 * Offset(DecDigits, BranchDigits[1])) + Offset(DecDigits, BranchDigits[2])

BranchPrefixes ==
    { <<"C", "L", "R", "A">>,
      <<"L", "D", "A", " ", "#", "1", "2", "8">>,
      <<"S", "U", "B", "A", " ", "#", "1">> }

BranchTo(name, target) == name \o <<" ">> \o target

BranchSources ==
    UNION { { BranchTo(name, BranchDigits),
              <<"L", ":", " ">> \o BranchTo(name, <<"L">>),
              Join(<<BranchTo(name, <<"L">>), <<"L", "D", "A", " ", "#", "1">>,
                     <<"L", ":", " ", "N", "O", "P">> >>) }
            \cup { Join(<<pre, BranchTo(name, BranchDigits)>>) : pre \in BranchPrefixes }
            \cup { <<"L", ":", " ">> \o Join(<<pre, BranchTo(name, <<"L">>)>>) :
                     pre \in BranchPrefixes }
            : name \in BranchNames }

InitBranch ==
    /\ mem = MemIdle /\ asm = AsmIdle /\ s19 = S19Idle
    /\ rd = RdIdle /\ fm = FmIdle /\ call = CallIdle
    /\ \E src \in BranchSources, build \in Builds :
         /\ px = FromSource(src, build)
         /\ cpu = CpuStart(build, [steps |-> MaxBranchSteps, resets |-> 0, logs |-> 0,
                                   runs |-> 0, family |-> "assembled"])

NextBranch ==
    \/ ParseStart \/ ParseInstructionLine \/ ParseSymbolLine \/ ParseEof
    \/ Pass1Symbol \/ Pass1Instruction \/ Pass1Done
    \/ Pass2Instruction \/ Pass2Symbol \/ Pass2Done
    \/ CpuLoadMemory \/ CpuStep

\* assemble(src), load_memory of the image it returns, then steps
SpecBranch == InitBranch /\ [][NextBranch]_vars

InitExg ==
    /\ mem = MemIdle /\ asm = AsmIdle /\ px = PxIdle /\ s19 = S19Idle
    /\ rd = RdIdle /\ fm = FmIdle /\ call = CallIdle
    /\ \E build \in Builds :
         cpu = CpuStart(build, [steps |-> MaxExgSteps, resets |-> 0, logs |-> 0,
                                runs |-> 0, family |-> "exg"])

\* load_memory of an exchange program, then steps
SpecExg == InitExg /\ [][NextStack]_vars

InitTables ==
    /\ mem = MemIdle /\ asm = AsmIdle /\ px = PxIdle /\ s19 = S19Idle
    /\ rd = RdIdle /\ fm = FmIdle /\ cpu = CpuIdle
    /\ \E e \in OpcodeTable : call = CallStart("table", "debug", e)

\* every row of the parser's table against the interpreter's table
SpecTables == InitTables /\ [][LookupRow]_vars

InitNumbers ==
    /\ mem = MemIdle /\ asm = AsmIdle /\ px = PxIdle /\ s19 = S19Idle
    /\ rd = RdIdle /\ fm = FmIdle /\ cpu = CpuIdle
    /\ \E v \in Byte, notation \in Notations, build \in Builds :
         call = CallStart("parse_number", build, [v |-> v, notation |-> notation])

\* parse_number on every literal of a byte
SpecNumbers == InitNumbers /\ [][ParseLiteral]_vars

(***************************************************************************)
(* Helpers of the properties.                                              *)
(***************************************************************************)
\* the cursor before line i of a pass, from the cursors after each line
PrePc(post, i) == IF i = 1 THEN 0 ELSE post[i - 1]

\* the lines that define label name, in order
DefsOf(ast, name) == { i \in 1 .. Len(ast) : ast[i].kind = "Symbol" /\ ast[i].name = name }
Min(S) == CHOOSE x \in S : \A y \in S : x <= y
FirstDef(ast, name) == Min(DefsOf(ast, name))
\* the second definition of the first label that is defined twice
DupLines(ast) == { i \in 1 .. Len(ast) : ast[i].kind = "Symbol" /\ DefsOf(ast, ast[i].name) \cap (1 .. (i - 1)) # {} }
HasDup(ast) == DupLines(ast) # {}
SecondDef(ast) == Min(DupLines(ast))

Pass1Failed(a) == a.phase = "done" /\ Len(a.post1) < Len(a.ast)
Pass2Failed(a) == a.phase = "done" /\ a.result.kind # "Ok" /\ Len(a.post1) = Len(a.ast)

IsOrgSym(l) == IsDir(l, "Org") /\ Len(l.args) > 0 /\ l.args[1].k = "Sym"

(***************************************************************************)
(* C1: on the 256-byte image, a write_byte at cursor 255 succeeds, stores  *)
(* the byte at address 255 and leaves the cursor at 256; a write_byte at   *)
(* cursor 256 returns an error and changes no data byte; the cursor never  *)
(* exceeds 256.                                                            *)
(***************************************************************************)
C1_AddressSpace ==
    /\ mem.cur.pc <= MemSize
    /\ (mem.op = "write_byte" /\ mem.prev.pc = MemSize - 1) =>
           /\ mem.err = "None"
           /\ mem.cur.data = [mem.prev.data EXCEPT ![MemSize - 1] = mem.arg]
           /\ mem.cur.pc = MemSize
    /\ (mem.op = "write_byte" /\ mem.prev.pc = MemSize) =>
           /\ mem.err # "None"
           /\ mem.cur.data = mem.prev.data
           /\ mem.cur.pc = MemSize

\* the last byte was written, and the next write_byte was refused
C1_Witness ==
    /\ mem.op = "write_byte" /\ mem.prev.pc = MemSize /\ mem.err = "OutOfBounds"
    /\ mem.cur.data[MemSize - 1] = 171

(***************************************************************************)
(* C2: the address pass 1 binds to a label is the address at which pass 2  *)
(* emits the first byte of the line after the label, and in pass 1 every   *)
(* instruction advances the cursor by its encoded size (1 + operand bytes) *)
(* and FCB by its argument count, as in pass 2.                            *)
(***************************************************************************)
C2_LabelIsEmissionAddress ==
    /\ \A i \in 1 .. Len(asm.post2) :
         (/\ i > 1
          /\ asm.ast[i - 1].kind = "Symbol"
          /\ \/ asm.ast[i].kind = "Instruction"
             \/ IsDir(asm.ast[i], "Fcb") /\ Len(asm.ast[i].args) > 0)
         => asm.symbols[asm.ast[i - 1].name] = PrePc(asm.post2, i)
    /\ \A i \in 1 .. Len(asm.post2) :
         (asm.ast[i].kind = "Instruction" \/ IsDir(asm.ast[i], "Fcb"))
         => /\ asm.post1[i] - PrePc(asm.post1, i) = asm.post2[i] - PrePc(asm.post2, i)
            /\ asm.ast[i].kind = "Instruction" =>
                   asm.post1[i] - PrePc(asm.post1, i) = InsSize(asm.ast[i])

(***************************************************************************)
(* C3: when the instructions of a program (instructions and numeric ORGs   *)
(* only) need a byte at address 256 or beyond, assemble returns            *)
(* OverflowFromInstruction carrying the first instruction with a byte      *)
(* that does not fit, and no image.                                        *)
(***************************************************************************)
PlainLine(l) ==
    \/ l.kind = "Instruction" /\ \A k \in 1 .. Len(l.operands) : l.operands[k].a.k = "Num"
    \/ IsDir(l, "Org") /\ l.args[1].k = "Num"
Plain(ast) == \A i \in 1 .. Len(ast) : PlainLine(ast[i])

\* the first instruction of a plain program with a byte at address >= 256
RECURSIVE FirstUnfit(_, _, _)
FirstUnfit(ast, i, cur) ==
    IF i > Len(ast) THEN 0
    ELSE IF ast[i].kind = "Directive" THEN FirstUnfit(ast, i + 1, ast[i].args[1].v)
    ELSE IF cur + InsSize(ast[i]) > MemSize THEN i
    ELSE FirstUnfit(ast, i + 1, cur + InsSize(ast[i]))

C3_OverflowNamesInstruction ==
    (asm.phase = "done" /\ Plain(asm.ast) /\ FirstUnfit(asm.ast, 1, 0) # 0)
    => asm.result = OverflowFromInstruction(FirstUnfit(asm.ast, 1, 0))

(***************************************************************************)
(* C4: in pass 1 an FCB that would move the cursor past 256 yields the     *)
(* overflow error tagged with the directive, so the pass-1 cursor is at    *)
(* most 256 in every state and no label is bound from a larger cursor.     *)
(***************************************************************************)
C4_Pass1CursorBounded ==
    /\ asm.phase = "pass1" => asm.memory.pc <= MemSize
    /\ \A i \in 1 .. Len(asm.post1) :
         (IsDir(asm.ast[i], "Fcb") /\ PrePc(asm.post1, i) + Len(asm.ast[i].args) > MemSize)
         => FALSE

(***************************************************************************)
(* C5 as claimed: a program that defines a label twice ends with the       *)
(* duplicate-symbol error located at the second definition, whatever the   *)
(* other lines are.                                                        *)
(***************************************************************************)
C5_Original ==
    (asm.phase = "done" /\ HasDup(asm.ast))
    => asm.result = ParseErr("Duplicate symbol", SecondDef(asm.ast))

(***************************************************************************)
(* C5 as amended: a program that defines a label twice never yields an     *)
(* image and never enters pass 2; pass 1 stops at or before the second     *)
(* definition, and when it reaches the second definition (no earlier line  *)
(* failed) the error is the duplicate-symbol error located there.          *)
(***************************************************************************)
C5_DuplicateRejected ==
    HasDup(asm.ast) =>
       /\ asm.phase # "pass2"
       /\ asm.result.kind # "Ok"
       /\ asm.idx <= SecondDef(asm.ast)
       /\ (asm.phase = "done" /\ asm.idx = SecondDef(asm.ast))
              => asm.result = ParseErr("Duplicate symbol", SecondDef(asm.ast))
       /\ (asm.result.kind = "Parse" /\ asm.result.msg = "Duplicate symbol")
              => asm.result.at = SecondDef(asm.ast)

\* the second definition was reached with other lines between the two
C5_Witness ==
    /\ asm.phase = "done" /\ HasDup(asm.ast)
    /\ asm.result = ParseErr("Duplicate symbol", SecondDef(asm.ast))
    /\ SecondDef(asm.ast) = 4
    /\ asm.ast[2].kind = "Instruction" /\ asm.ast[3].kind = "Directive"

(***************************************************************************)
(* C6: a symbol used as an instruction operand or FCB argument on a line   *)
(* before its label definition is resolved in pass 2 to the address pass 1 *)
(* bound to the label: the use does not fail as undefined and the byte     *)
(* emitted is the cursor (as u8) pass 1 had at the label.                  *)
(***************************************************************************)
\* the atoms of line l that become bytes, in order
ByteAtoms(l) ==
    IF l.kind = "Instruction"
    THEN [k \in 1 .. Len(l.operands) |-> l.operands[k].a]
    ELSE IF IsDir(l, "Fcb") THEN l.args ELSE <<>>
\* the offset of atom k of line l from the first byte of the line
ByteOffset(l, k) == IF l.kind = "Instruction" THEN k ELSE k - 1
\* atom k of line i is a symbol whose definition comes after line i
ForwardUse(ast, i, k) ==
    /\ ByteAtoms(ast[i])[k].k = "Sym"
    /\ DefsOf(ast, ByteAtoms(ast[i])[k].s) # {}
    /\ FirstDef(ast, ByteAtoms(ast[i])[k].s) > i

C7_OrgSymbol ==
    /\ (Pass1Failed(asm) /\ IsOrgSym(Cur(asm)))
         => /\ asm.result = ParseErr("Undefined symbol", asm.idx)
            /\ DefsOf(asm.ast, Cur(asm).args[1].s) \cap (1 .. asm.idx) = {}
    /\ \A i \in 1 .. Len(asm.post1) : IsOrgSym(asm.ast[i]) =>
         /\ DefsOf(asm.ast, asm.ast[i].args[1].s) \cap (1 .. i) # {}
         /\ asm.post1[i] = PrePc(asm.post1, FirstDef(asm.ast, asm.ast[i].args[1].s)) % U8Mod
         /\ asm.post1[i] = asm.symbols[asm.ast[i].args[1].s]
    /\ \A i \in 1 .. Len(asm.post2) : IsOrgSym(asm.ast[i]) => asm.post2[i] = asm.post1[i]
    /\ ~(Pass2Failed(asm) /\ IsOrgSym(Cur(asm)))

\* an ORG to a label bound at a non-zero address was taken in both passes
C7_Witness ==
    \E i \in 1 .. Len(asm.post2) :
       IsOrgSym(asm.ast[i]) /\ asm.post2[i] > 0 /\ asm.post2[i] = asm.post1[i]

\* assemble has returned, or the process has panicked or hangs
PipelineEnded == px.phase = "done" /\ (px.out # "Ok" \/ asm.phase = "done")

\* the kinds of the tokens next_token returned so far
TokenKinds == [i \in 1 .. Len(px.toks) |-> px.toks[i].kind]

(***************************************************************************)
(* C8: the source ORG $20 / ADDA #1 / ADDA 16 / ORG $FF / FCB $20, run     *)
(* through lexer, parser and both passes, yields the image with 0x96 0x01  *)
(* at 0x20-0x21, 0xA6 0x10 at 0x22-0x23, 0x20 at 0xFF and zero everywhere  *)
(* else.                                                                   *)
(***************************************************************************)
AddaImage ==
    [a \in Addr |-> CASE a = 32 -> 150
                      [] a = 33 -> 1
                      [] a = 34 -> 166
                      [] a = 35 -> 16
                      [] a = 255 -> 32
                      [] OTHER -> 0]

C8_AddaProgramImage ==
    (px.src = AddaProgram /\ PipelineEnded)
    => /\ px.out = "Ok"
       /\ asm.result.kind = "Ok"
       /\ asm.memory.data = AddaImage

(***************************************************************************)
(* C9: for the indexed forms n,SP / n,X / n,Y of ADDA and SUBA the lexer   *)
(* produces the tokens Instruction, NumberLiteral, Comma, NamedLiteral,    *)
(* and the assembler emits the opcode of the form (ADDA 0xB6 0xC6 0xD6,    *)
(* SUBA 0xB4 0xC4 0xD4) followed by exactly the one byte n; the register   *)
(* contributes no byte.  Here n = 10 and the line is the whole source.     *)
(***************************************************************************)
IndexedLines ==
    { [src |-> <<"A", "D", "D", "A", " ", "1", "0", ",", "S", "P">>, opcode |-> 182],
      [src |-> <<"A", "D", "D", "A", " ", "1", "0", ",", "X">>, opcode |-> 198],
      [src |-> <<"A", "D", "D", "A", " ", "1", "0", ",", "Y">>, opcode |-> 214],
      [src |-> <<"S", "U", "B", "A", " ", "1", "0", ",", "S", "P">>, opcode |-> 180],
      [src |-> <<"S", "U", "B", "A", " ", "1", "0", ",", "X">>, opcode |-> 196],
      [src |-> <<"S", "U", "B", "A", " ", "1", "0", ",", "Y">>, opcode |-> 212] }

C9_IndexedForms ==
    \A f \in IndexedLines :
        (px.src = f.src /\ PipelineEnded)
        => /\ px.out = "Ok"
           /\ Len(px.toks) >= 4
           /\ SubSeq(TokenKinds, 1, 4)
                = <<"Instruction", "NumberLiteral", "Comma", "NamedLiteral">>
           /\ asm.result.kind = "Ok"
           /\ asm.memory.data[0] = f.opcode
           /\ asm.memory.data[1] = 10
           /\ asm.memory.pc = 2

(***************************************************************************)
(* C10: every data record emit_s19 produces has a payload of at most 30    *)
(* bytes: a run of more than 30 contiguous bytes, isolated single zero     *)
(* bytes included, is split into consecutive records.                      *)
(***************************************************************************)
C10_PayloadAtMost30 ==
    \A i \in 1 .. Len(s19.records) :
        s19.records[i].kind = "S1" => Len(s19.records[i].data) <= 30

\* the record r holds a byte for the address a
Covers(r, a) == r.kind = "S1" /\ r.address <= a /\ a < r.address + Len(r.data)

\* the indices of the records of emit_s19 that hold a byte for a
RecordsOf(a) == { i \in 1 .. Len(s19.records) : Covers(s19.records[i], a) }

\* a and b are non-zero bytes of the image with at least two bytes between
\* them, all of them zero
ZeroGap(m, a, b) ==
    /\ a + 2 < b /\ m[a] # 0 /\ m[b] # 0
    /\ \A c \in (a + 1) .. (b - 1) : m[c] = 0

(***************************************************************************)
(* C11: when emit_s19 has run, every non-zero byte of the image is in      *)
(* exactly one data record, at its own address; no payload holds two       *)
(* consecutive zero bytes; two non-zero bytes separated by two or more     *)
(* zero bytes are in different records.                                    *)
(***************************************************************************)
C11_RecordsCoverImage ==
    s19.phase = "done" =>
        /\ \A a \in Addr :
             s19.mem[a] # 0 =>
                /\ Cardinality(RecordsOf(a)) = 1
                /\ \A i \in RecordsOf(a) :
                     s19.records[i].data[a - s19.records[i].address + 1] = s19.mem[a]
        /\ \A i \in 1 .. Len(s19.records) :
             \A k \in 1 .. (Len(s19.records[i].data) - 1) :
                ~(s19.records[i].data[k] = 0 /\ s19.records[i].data[k + 1] = 0)
        /\ \A a, b \in Addr :
             ZeroGap(s19.mem, a, b) => RecordsOf(a) \cap RecordsOf(b) = {}

\* emit_s19 has returned for an image with a gap of two zero bytes inside
\* its block and an isolated zero byte inside one of its payloads
C11_Witness ==
    /\ s19.phase = "done"
    /\ \E a, b \in Addr : ZeroGap(s19.mem, a, b)
    /\ \E i \in 1 .. Len(s19.records) :
         \E k \in 2 .. (Len(s19.records[i].data) - 1) : s19.records[i].data[k] = 0

(***************************************************************************)
(* C12: the record handling of parse_s19, applied to the records emit_s19  *)
(* produced for an image (data records and the termination record), ends   *)
(* without error and yields the image again in all 256 bytes.              *)
(***************************************************************************)
C12_RecordRoundTrip ==
    rd.phase = "done" => (rd.out = "Ok" /\ rd.mem = s19.mem)

\* parse_s19 has read several data records, one of them with a zero byte
\* inside, and the termination record of an image whose last byte is set
C12_Witness ==
    /\ rd.phase = "done" /\ rd.idx > Len(rd.records)
    /\ Len(rd.records) >= 3
    /\ rd.records[Len(rd.records)].kind = "S9"
    /\ s19.mem[U8Max] # 0
    /\ \E i \in 1 .. Len(rd.records) :
         \E k \in 2 .. (Len(rd.records[i].data) - 1) : rd.records[i].data[k] = 0

(***************************************************************************)
(* C13: the text emit_fmem produces for an image (header, ClearAllMemory,  *)
(* ClearAllRegisters, one setMemory line per non-zero byte in ascending    *)
(* address order) is accepted by parse_fmem without error and decodes to   *)
(* the image again in all 256 bytes.                                       *)
(***************************************************************************)
C13_FmemRoundTrip ==
    fm.phase = "done" => (fm.res.err = "" /\ fm.res.mem = fm.image)


(***************************************************************************)
(* C14: a new interpreter is in state Reset; a step in Reset loads PC from *)
(* memory[0xFF], changes no other register, flag, memory byte or the       *)
(* clock, and moves to Fetch; a later step that returns has fetched        *)
(* memory[PC] into I and is back in Fetch; whenever a call has returned    *)
(* the state is Reset or Fetch, never Execute.                             *)
(***************************************************************************)
C14_StateMachine ==
    /\ cpu.phase = "new" => cpu.p.q_state = "Reset"
    /\ cpu.p.out = "Ok" => cpu.p.q_state \in {"Reset", "Fetch"}
    /\ (cpu.last = "step" /\ cpu.prev.q_state = "Reset") =>
          /\ cpu.p.q_state = "Fetch"
          /\ cpu.p.reg = [cpu.prev.reg EXCEPT !.pc = cpu.prev.memory[ResetVector]]
          /\ cpu.p.memory = cpu.prev.memory
          /\ cpu.p.clk_count = cpu.prev.clk_count
    /\ (cpu.last = "step" /\ cpu.prev.q_state = "Fetch" /\ cpu.p.out = "Ok") =>
          /\ cpu.p.q_state = "Fetch"
          /\ cpu.p.reg.i = cpu.prev.memory[cpu.prev.reg.pc]

\* a step in Fetch has executed a store after the step in Reset loaded a non-zero PC
C14_Witness ==
    /\ cpu.last = "step" /\ cpu.prev.q_state = "Fetch" /\ cpu.p.out = "Ok"
    /\ cpu.p.memory # cpu.prev.memory
    /\ cpu.p.reg.pc # 0 /\ cpu.resets = 0


\* what the trace of an interpreter shows: A, X, Y, SP, PC, CC, memory and clock
Obs(q) ==
    <<q.reg.a, q.reg.x, q.reg.y, q.reg.sp, q.reg.pc, q.reg.cc, q.memory, q.clk_count>>

(***************************************************************************)
(* C15: after reset() followed by n calls of step(), for every n, the      *)
(* registers A, X, Y, SP, PC, CC, the memory and the clock are those of a  *)
(* fresh interpreter after load_memory of the same image and the same n    *)
(* calls of step().                                                        *)
(***************************************************************************)
C15_ResetIdempotent ==
    (cpu.twin # None /\ cpu.p.out = "Ok") =>
        (cpu.twin[1].out = "Ok" /\ Obs(cpu.p) = Obs(cpu.twin[1]))


(***************************************************************************)
(* C16: after load_memory(image), any steps and then reset(), the working  *)
(* memory equals the image in all 256 bytes, the clock is 0 and PC is      *)
(* image[0xFF]; no call changes the snapshot the memory is restored from.  *)
(***************************************************************************)
C16_ResetRestores ==
    /\ cpu.phase = "run" => cpu.p.source_memory = cpu.image
    /\ cpu.last = "reset" =>
          /\ cpu.p.memory = cpu.image
          /\ cpu.p.clk_count = U32(0, 0)
          /\ cpu.p.reg.pc = cpu.image[ResetVector]

\* a reset after steps that overwrote the reset vector and ran the clock
C16_Witness ==
    /\ cpu.last = "reset"
    /\ cpu.prev.memory[ResetVector] # cpu.image[ResetVector]
    /\ cpu.prev.clk_count # U32(0, 0)
    /\ cpu.p.memory = cpu.image

(***************************************************************************)
(* C17: after reset(), whatever was executed before, the registers A, X,   *)
(* Y, SP and the flags CC hold the values of a freshly constructed         *)
(* interpreter.                                                            *)
(***************************************************************************)
C17_ResetRegisters ==
    cpu.last = "reset" =>
        /\ cpu.p.reg.a = RegisterStoreDefault.a
        /\ cpu.p.reg.x = RegisterStoreDefault.x
        /\ cpu.p.reg.y = RegisterStoreDefault.y
        /\ cpu.p.reg.sp = RegisterStoreDefault.sp
        /\ cpu.p.reg.cc = RegisterStoreDefault.cc


\* the clock after a step in Fetch is the clock before it plus the cost, as numbers
ClkIsSum(before, cost, after) ==
    /\ after.lo = (before.lo + cost) % U16Mod
    /\ after.hi = before.hi + ((before.lo + cost) \div U16Mod)

(***************************************************************************)
(* C18: a step in Fetch that returns increases the clock by exactly the    *)
(* cycle cost of the opcode it fetched, a step in Reset leaves the clock   *)
(* unchanged, and no call other than reset() ever decreases the clock.     *)
(***************************************************************************)
C18_ClockAccounting ==
    /\ (cpu.last = "step" /\ cpu.prev.q_state = "Fetch" /\ cpu.p.out = "Ok") =>
          ClkIsSum(cpu.prev.clk_count, GetInstructionSizeAndTime(cpu.p.reg.i)[2],
                   cpu.p.clk_count)
    /\ (cpu.last = "step" /\ cpu.prev.q_state = "Reset") =>
          cpu.p.clk_count = cpu.prev.clk_count
    /\ cpu.last # "reset" => ClkLeq(cpu.prev.clk_count, cpu.p.clk_count)


(***************************************************************************)
(* C19: when the opcode fetched is one of 0x03, 0x04, 0xDF, 0xE0, 0xEF,    *)
(* 0xFF the step ends in a panic inside Execute: in no reachable state has *)
(* such an opcode been fetched with the interpreter back in Fetch.         *)
(***************************************************************************)
C19_InvalidOpcodeFatal ==
    cpu.p.reg.i \in InvalidOpcodes =>
        (cpu.p.out = "Panic" /\ cpu.p.q_state = "Execute" /\ cpu.p.memory = cpu.prev.memory)

\* an invalid opcode has been fetched after an instruction that ran
C19_Witness ==
    /\ cpu.last = "step" /\ cpu.p.reg.i \in InvalidOpcodes /\ cpu.p.out = "Panic"
    /\ cpu.prev.out = "Ok" /\ cpu.prev.reg.a = 1

\* the entries of a log but its last one
Front(log) == SubSeq(log, 1, Len(log) - 1)

(***************************************************************************)
(* C20: the execution log never holds more than 20 entries; an entry added *)
(* to a full log removes the oldest one and the others keep their order.   *)
(***************************************************************************)
C20_LogBounded ==
    /\ Len(cpu.p.debug_logs) <= LogCap
    /\ cpu.p.debug_logs # cpu.prev.debug_logs =>
          Front(cpu.p.debug_logs) =
              IF Len(cpu.prev.debug_logs) = LogCap THEN Tail(cpu.prev.debug_logs)
              ELSE cpu.prev.debug_logs
    /\ cpu.last = "log" => cpu.p.debug_logs # cpu.prev.debug_logs

\* a message was added to a full log whose oldest entry was the one of the first step
C20_Witness ==
    /\ cpu.last = "log" /\ Len(cpu.prev.debug_logs) = LogCap
    /\ cpu.prev.debug_logs[1] = <<"RESET", CodeStart>>
    /\ cpu.p.debug_logs[1] = <<"msg", 1>>
    /\ cpu.p.debug_logs[LogCap] = <<"msg", LogCap>>


(***************************************************************************)
(* C21: JSR Adr at address p with RTS the first instruction at Adr: after  *)
(* the JSR, SP is one less (mod 256) and memory[SP] holds p + 2; the next  *)
(* step executes that RTS, after which SP is the original one and PC is    *)
(* p + 2.                                                                  *)
(***************************************************************************)
C21_JsrRts ==
    LET p0 == cpu.prev2.reg.pc
        adr == cpu.prev2.memory[(p0 + 1) % U8Mod]
    IN  (/\ cpu.last = "step" /\ cpu.last2 = "step"
         /\ cpu.prev2.out = "Ok" /\ cpu.prev2.q_state = "Fetch"
         /\ cpu.prev2.memory[p0] = 52 /\ cpu.prev2.memory[adr] = 67) =>
            /\ cpu.prev.out = "Ok"
            /\ cpu.prev.reg.sp = (cpu.prev2.reg.sp - 1) % U8Mod
            /\ cpu.prev.memory[cpu.prev.reg.sp] = (p0 + 2) % U8Mod
            /\ cpu.p.out = "Ok" /\ cpu.p.reg.i = 67
            /\ cpu.p.reg.sp = cpu.prev2.reg.sp
            /\ cpu.p.reg.pc = (p0 + 2) % U8Mod


(***************************************************************************)
(* C22: for every opcode of the parser's table the interpreter's table has *)
(* a size of 1 plus the operand bytes the assembler emits and a non-zero   *)
(* cycle cost, and no two (mnemonic, operand form) pairs share an opcode.  *)
(***************************************************************************)
C22_TablesAgree ==
    (call.f = "table" /\ call.phase = "done") =>
        /\ call.res.st[1] = call.res.size
        /\ call.res.st[2] > 0
        /\ \A e \in OpcodeTable : e[5] = call.arg[5] => e = call.arg


(***************************************************************************)
(* C23: every call of next_token returns, also when the source ends inside *)
(* a comment; no Comment token is returned; a parse that ends without      *)
(* error has been handed the Eof token.                                    *)
(***************************************************************************)
C23_LexerTerminates ==
    /\ px.out # "Hang"
    /\ \A i \in 1 .. Len(px.toks) : px.toks[i].kind # "Comment"
    /\ (px.phase = "done" /\ Running(px)) => px.curr_tok.kind = "Eof"

\* the bytes lex_next_token has an arm for
TokenStarts ==
    Upper \cup Lower \cup {"#", "$", "%", ";", ":"}
        \cup { DecDigits[i] : i \in 1 .. Len(DecDigits) }

(***************************************************************************)
(* C24: when the next non-whitespace byte starts no token, next_token      *)
(* returns a token of kind Invalid at that byte: the lexer neither aborts  *)
(* there nor returns a token of another kind for it.                       *)
(***************************************************************************)
C24_InvalidToken ==
    LET at == SkipWhitespace(px.src, px.pos)
    IN  /\ ~(px.out = "Panic" /\ at < Len(px.src) /\ Curr(px.src, at) \notin TokenStarts)
        /\ \A i \in 1 .. Len(px.toks) :
              (px.toks[i].kind # "Eof" /\ Curr(px.src, px.toks[i].start) \notin TokenStarts)
                  => px.toks[i].kind = "Invalid"


(***************************************************************************)
(* C25: for every v of 0 .. 255 written in decimal, in hex after `$` (with *)
(* a-f or A-F) or in binary after `%`, parse_number consumes the whole     *)
(* literal and returns v, and its 8-bit arithmetic neither overflows nor   *)
(* underflows.                                                             *)
(***************************************************************************)
C25_LiteralValue ==
    (call.f = "parse_number" /\ call.phase = "done") =>
        /\ call.res.out = "Ok"
        /\ call.res.val = call.arg.v
        /\ call.res.pos = Len(Literal(call.arg.v, call.arg.notation))


(***************************************************************************)
(* C26: once the lexer has returned an EQU, FCS or RMB directive token,    *)
(* the pipeline does not panic, and when it has ended assemble has         *)
(* returned an error value, not an image.                                  *)
(***************************************************************************)
C26_UnsupportedDirective ==
    (\E i \in 1 .. Len(px.toks) :
        px.toks[i].kind = "Directive" /\ px.toks[i].str \in {"Equ", "Fcs", "Rmb"})
    => /\ px.out # "Panic"
       /\ asm.result.kind \notin {"Ok", "Panic"}
       /\ PipelineEnded => asm.result.kind # "None"


\* the instruction token of the line parse_instruction is in: the last
\* Instruction token in front of the token the parser looks at
InsToken ==
    LET at == { i \in 1 .. (Len(px.toks) - 1) : px.toks[i].kind = "Instruction" }
    IN  px.toks[CHOOSE i \in at : \A j \in at : j <= i]

(***************************************************************************)
(* C27: when parse_instruction finds no table entry for the mnemonic and   *)
(* the operand form, parse ends with the error "Invalid operand form for   *)
(* instruction" whose span runs from the start of the instruction token to *)
(* the end of the last operand token consumed, and assemble returns that   *)
(* error instead of an image.                                              *)
(***************************************************************************)
C27_InvalidOperandForm ==
    px.err = "Invalid operand form for instruction" =>
        /\ px.phase = "done"
        /\ asm.phase = "done" /\ asm.result.kind = "Parse"
        /\ asm.result.msg = "Invalid operand form for instruction"
        /\ px.span = Span(InsToken.start, px.prev_tok.end)


\* the registers the push and pull instructions are about, in the order of their
\* opcodes: A, X, Y, CC
StackReg(p, k) ==
    CASE k = 0 -> p.reg.a [] k = 1 -> p.reg.x [] k = 2 -> p.reg.y [] k = 3 -> p.reg.cc

\* the opcode the step from state p fetched, when p was in Fetch
Fetches(p) == IF p.q_state = "Fetch" /\ p.out = "Ok" THEN p.memory[p.reg.pc] ELSE -1

(***************************************************************************)
(* C28: a step that executes PSHA, PSHX, PSHY or PSHC decrements SP mod 256 *)
(* and stores the register at the new memory[SP], changing no other byte;  *)
(* a step that executes PULA, PULX, PULY or PULC loads the register from   *)
(* memory[SP] and then increments SP mod 256, changing no byte; after a    *)
(* push and the pull of the same register in the next step the register    *)
(* and SP are what they were before the push.                              *)
(***************************************************************************)
C28_PushPull ==
    /\ \A k \in 0 .. 3 :
         (cpu.last = "step" /\ Fetches(cpu.prev) = 16 + k) =>
            /\ cpu.p.out = "Ok"
            /\ cpu.p.reg.sp = (cpu.prev.reg.sp - 1) % U8Mod
            /\ cpu.p.memory = [cpu.prev.memory EXCEPT ![cpu.p.reg.sp] = StackReg(cpu.prev, k)]
            /\ StackReg(cpu.p, k) = StackReg(cpu.prev, k)
    /\ \A k \in 0 .. 3 :
         (cpu.last = "step" /\ Fetches(cpu.prev) = 20 + k) =>
            /\ cpu.p.out = "Ok"
            /\ StackReg(cpu.p, k) = cpu.prev.memory[cpu.prev.reg.sp]
            /\ cpu.p.reg.sp = (cpu.prev.reg.sp + 1) % U8Mod
            /\ cpu.p.memory = cpu.prev.memory
    /\ \A k \in 0 .. 3 :
         (/\ cpu.last = "step" /\ cpu.last2 = "step"
          /\ Fetches(cpu.prev2) = 16 + k /\ Fetches(cpu.prev) = 20 + k) =>
            /\ StackReg(cpu.p, k) = StackReg(cpu.prev2, k)
            /\ cpu.p.reg.sp = cpu.prev2.reg.sp

\* CC with the bits 0x80 set has been pushed at SP = 0x00, which wrapped SP to 0xFF
\* and wrote the byte at 0xFF, and has been pulled again, which wrapped SP to 0x00
C28_Witness ==
    /\ cpu.last = "step" /\ cpu.last2 = "step"
    /\ Fetches(cpu.prev2) = 19 /\ Fetches(cpu.prev) = 23
    /\ cpu.prev2.reg.sp = 0 /\ cpu.prev2.reg.cc = 128
    /\ cpu.prev.reg.sp = U8Max /\ cpu.prev.memory[U8Max] = 128
    /\ cpu.p.reg.sp = 0 /\ cpu.p.reg.cc = 128


\* the register a load or a logical instruction writes
LoadDest(p, op) ==
    IF op >= 240 THEN p.reg.a
    ELSE CASE op % 16 = 0 -> p.reg.x
           [] op % 16 = 1 -> p.reg.y
           [] op % 16 = 2 -> p.reg.sp
           [] OTHER -> p.reg.a

(***************************************************************************)
(* C29: after a step that executes LDA, LDX, LDY, LDSP, ANDA, ORA or EORA  *)
(* in any of its addressing modes, N is bit 7 of the destination register, *)
(* Z is set exactly when the register is 0, V is clear, and C and I are    *)
(* what they were before the step.                                         *)
(***************************************************************************)
C29_LoadFlags ==
    (cpu.last = "step" /\ Fetches(cpu.prev) \in LoadOpcodes) =>
        LET v == LoadDest(cpu.p, Fetches(cpu.prev))
        IN  /\ cpu.p.out = "Ok"
            /\ CCGet(cpu.p.reg.cc, CCFlagN) = Bit7(v)
            /\ CCGet(cpu.p.reg.cc, CCFlagZ) = (v = 0)
            /\ ~CCGet(cpu.p.reg.cc, CCFlagV)
            /\ CCGet(cpu.p.reg.cc, CCFlagC) = CCGet(cpu.prev.reg.cc, CCFlagC)
            /\ CCGet(cpu.p.reg.cc, CCFlagI) = CCGet(cpu.prev.reg.cc, CCFlagI)

\* EORA n,Y with all five flags set has produced 0: N and V are cleared, Z, C and I
\* are set
C29_Witness ==
    /\ cpu.last = "step" /\ Fetches(cpu.prev) = 219
    /\ cpu.prev.reg.cc = 31 /\ cpu.prev.reg.a = 31
    /\ cpu.p.out = "Ok" /\ cpu.p.reg.a = 0
    /\ cpu.p.reg.cc = CCFlagI + CCFlagZ + CCFlagC


\* a byte as a signed number
Signed(v) == IF v >= 128 THEN v - U8Mod ELSE v

\* the left operand of the arithmetic or compare instruction op in state p
ArithLeft(p, op) ==
    CASE op = 156 -> p.reg.x [] op = 157 -> p.reg.y [] op = 158 -> p.reg.sp
      [] OTHER -> p.reg.a

\* the exact result of op on x and y with carry c: a sum for ADDA, else a difference
ArithExact(op, x, y, c) ==
    CASE op = 150 -> x + y
      [] op = 147 -> x - y - c
      [] OTHER -> x - y

(***************************************************************************)
(* C30: after a step that executes ADDA, SUBA, SBCA, CMPA, CMPX, CMPY or   *)
(* CMPSP on the register value x and the operand y, N is bit 7 of the      *)
(* 8-bit result, Z is set exactly when the result is 0, C is set exactly   *)
(* when the unsigned sum exceeds 255 or the unsigned difference is         *)
(* negative, and V is set exactly when the signed result is outside        *)
(* -128 .. 127; the compares change no register but CC and no memory byte. *)
(***************************************************************************)
C30_ArithFlags ==
    (cpu.last = "step" /\ Fetches(cpu.prev) \in ArithOpcodes) =>
        LET op == Fetches(cpu.prev)
            x == ArithLeft(cpu.prev, op)
            y == cpu.prev.memory[(cpu.prev.reg.pc + 1) % U8Mod]
            c == IF op = 147 /\ CCGet(cpu.prev.reg.cc, CCFlagC) THEN 1 ELSE 0
            u == ArithExact(op, x, y, c)
            t == ArithExact(op, Signed(x), Signed(y), c)
            cc == cpu.p.reg.cc
        IN  /\ cpu.p.out = "Ok"
            /\ CCGet(cc, CCFlagN) = Bit7(u % U8Mod)
            /\ CCGet(cc, CCFlagZ) = (u % U8Mod = 0)
            /\ CCGet(cc, CCFlagC) = (u < 0 \/ u > U8Max)
            /\ CCGet(cc, CCFlagV) = (t < -128 \/ t > 127)
            /\ op \in {151, 156, 157, 158} =>
                 /\ cpu.p.memory = cpu.prev.memory
                 /\ \A k \in 0 .. 2 : StackReg(cpu.p, k) = StackReg(cpu.prev, k)
                 /\ cpu.p.reg.sp = cpu.prev.reg.sp


\* state p after the fetch of step: the opcode in I, PC behind it
Fetched(p) ==
    [p EXCEPT !.reg.i = p.memory[p.reg.pc], !.reg.pc = (p.reg.pc + 1) % U8Mod]

\* the operand of the instruction the last step executed, before and after it
OperandBefore == RmwVal(Fetched(cpu.prev))
OperandAfter ==
    IF Fetches(cpu.prev) < 16 THEN cpu.p.reg.a
    ELSE cpu.p.memory[EffAdr(Fetched(cpu.prev))]

(***************************************************************************)
(* C31: after a step that executes INCA, DECA, INC or DEC in any mode the  *)
(* operand is one more resp. one less modulo 256, N is bit 7 of the        *)
(* result, Z is set exactly when it is 0, V is set exactly when 0x7F was   *)
(* incremented resp. 0x80 was decremented, and C is as before.             *)
(***************************************************************************)
C31_IncDec ==
    (cpu.last = "step" /\ Fetches(cpu.prev) \in RmwOpcodes
        /\ Fetches(cpu.prev) % 16 \in {7, 8}) =>
        LET inc == Fetches(cpu.prev) % 16 = 7
            cc == cpu.p.reg.cc
        IN  /\ cpu.p.out = "Ok"
            /\ OperandAfter = (OperandBefore + (IF inc THEN 1 ELSE -1)) % U8Mod
            /\ CCGet(cc, CCFlagN) = Bit7(OperandAfter)
            /\ CCGet(cc, CCFlagZ) = (OperandAfter = 0)
            /\ CCGet(cc, CCFlagV) = (OperandBefore = (IF inc THEN 127 ELSE 128))
            /\ CCGet(cc, CCFlagC) = CCGet(cpu.prev.reg.cc, CCFlagC)


(***************************************************************************)
(* C32: after a step that executes LSL, LSR, ASR, ROL or ROR on A or on    *)
(* memory, C is the bit shifted out of the operand (bit 7 for LSL and ROL, *)
(* bit 0 for LSR, ASR and ROR) and V is set exactly when bit 7 of the      *)
(* result differs from bit 7 of the operand.                               *)
(***************************************************************************)
C32_ShiftFlags ==
    (cpu.last = "step" /\ Fetches(cpu.prev) \in RmwOpcodes
        /\ Fetches(cpu.prev) % 16 \in 11 .. 15) =>
        LET left == Fetches(cpu.prev) % 16 \in {11, 13}
        IN  /\ cpu.p.out = "Ok"
            /\ CCGet(cpu.p.reg.cc, CCFlagC) =
                  (IF left THEN Bit7(OperandBefore) ELSE OperandBefore % 2 = 1)
            /\ CCGet(cpu.p.reg.cc, CCFlagV) = (Bit7(OperandAfter) # Bit7(OperandBefore))


(***************************************************************************)
(* C35: after a step that executes CLRA or CLR in any mode, A resp. the    *)
(* addressed byte is 0, N, V and C are clear and Z is set, and the other   *)
(* bits of CC, the other registers and every other memory byte are what    *)
(* they were after the fetch, PC apart.                                    *)
(***************************************************************************)
C35_Clr ==
    (cpu.last = "step" /\ Fetches(cpu.prev) \in RmwOpcodes
        /\ Fetches(cpu.prev) % 16 = 5) =>
        LET f == Fetched(cpu.prev)
            flags == ((f.reg.cc \div 16) * 16) + CCFlagZ
        IN  /\ cpu.p.out = "Ok"
            /\ OperandAfter = 0
            /\ cpu.p.reg.cc = flags
            /\ ~CCGet(flags, CCFlagN) /\ CCGet(flags, CCFlagZ)
            /\ ~CCGet(flags, CCFlagV) /\ ~CCGet(flags, CCFlagC)
            /\ IF f.reg.i < 16
               THEN /\ cpu.p.memory = f.memory
                    /\ cpu.p.reg = [f.reg EXCEPT !.a = 0, !.cc = flags, !.pc = cpu.p.reg.pc]
               ELSE /\ cpu.p.memory = [f.memory EXCEPT ![EffAdr(f)] = 0]
                    /\ cpu.p.reg = [f.reg EXCEPT !.cc = flags, !.pc = cpu.p.reg.pc]

\* CLR n,X on the byte 0xFF with all flags set: the byte is 0, and of the flags I and Z
\* are left
C35_Witness ==
    /\ cpu.last = "step" /\ Fetches(cpu.prev) = 85
    /\ cpu.prev.reg.cc = 127 /\ cpu.prev.memory[RmwAdr] = 255
    /\ cpu.p.out = "Ok" /\ cpu.p.memory[RmwAdr] = 0
    /\ cpu.p.reg.cc = 96 + CCFlagI + CCFlagZ


(***************************************************************************)
(* C33: after a step that executes ADCA on A and the operand y with the C  *)
(* flag c before it, A is (A + y + c) mod 256, C is set exactly when       *)
(* A + y + c exceeds 255 and V exactly when the signed sum of the three is *)
(* outside -128 .. 127.                                                    *)
(***************************************************************************)
C33_Adca ==
    (cpu.last = "step" /\ Fetches(cpu.prev) \in AdcaOpcodes) =>
        LET x == cpu.prev.reg.a
            y == ModeData(Fetched(cpu.prev))
            c == IF CCGet(cpu.prev.reg.cc, CCFlagC) THEN 1 ELSE 0
            t == Signed(x) + Signed(y) + c
        IN  /\ cpu.p.out = "Ok"
            /\ cpu.p.reg.a = (x + y + c) % U8Mod
            /\ CCGet(cpu.p.reg.cc, CCFlagC) = (x + y + c > U8Max)
            /\ CCGet(cpu.p.reg.cc, CCFlagV) = (t < -128 \/ t > 127)


\* the index register of the indexed load of A with opcode op, in state p
IndexReg(p, op) ==
    CASE op = 242 -> p.reg.sp
      [] op \in {243, 244} -> p.reg.x
      [] op \in {249, 250} -> p.reg.y

(***************************************************************************)
(* C34: after a step that executes LDA n,SP, LDA n,X or LDA n,Y, A is the  *)
(* byte at (n + R) mod 256, and after LDA A,X or LDA A,Y it is the byte at *)
(* (A + R) mod 256; the index register R and the memory are unchanged.     *)
(***************************************************************************)
C34_IndexedLoad ==
    (cpu.last = "step" /\ Fetches(cpu.prev) \in {242, 243, 244, 249, 250}) =>
        LET op == Fetches(cpu.prev)
            f == Fetched(cpu.prev)
            base == IF op \in {244, 250} THEN f.reg.a ELSE ImmData(f)
        IN  /\ cpu.p.out = "Ok"
            /\ cpu.p.reg.a = f.memory[(base + IndexReg(f, op)) % U8Mod]
            /\ IndexReg(cpu.p, op) = IndexReg(f, op)
            /\ cpu.p.memory = f.memory


(***************************************************************************)
(* C36: after a step that executes JMP Adr or JSR Adr, PC is the operand   *)
(* byte Adr, and after JMP or JSR n,X or n,Y it is (n + R) mod 256.        *)
(***************************************************************************)
C36_JumpTarget ==
    (cpu.last = "step" /\ Fetches(cpu.prev) \in {51, 52, 83, 84, 115, 116}) =>
        /\ cpu.p.out = "Ok"
        /\ cpu.p.reg.pc = EffAdr(Fetched(cpu.prev))

\* the line of the branch in the program assemble was given, the address pass 2
\* laid line k at, and the address the operand of the branch stands for: the
\* number written in the source, or the address of the line of the label
BranchLine ==
    CHOOSE k \in 1 .. Len(asm.ast) :
        asm.ast[k].kind = "Instruction" /\ asm.ast[k].opcode \in 32 .. 47
LineAdr(k) == IF k = 1 THEN 0 ELSE asm.post2[k - 1]
BranchGoal ==
    LET a == asm.ast[BranchLine].operands[1].a
    IN  IF a.k = "Num" THEN BranchTarget
        ELSE LineAdr(CHOOSE j \in 1 .. Len(asm.ast) :
                        asm.ast[j].kind = "Symbol" /\ asm.ast[j].name = a.s)

(***************************************************************************)
(* C37: when the image assemble returns for a branch to the address T,     *)
(* given as a number or as a label, is loaded and the step that executes   *)
(* the branch is taken, the next opcode is fetched at T; when it is not    *)
(* taken, the next opcode is fetched behind the two bytes of the branch.   *)
(***************************************************************************)
C37_BranchTarget ==
    (cpu.last = "step" /\ Fetches(cpu.prev) \in 32 .. 47
        /\ cpu.prev.reg.pc = LineAdr(BranchLine)) =>
        /\ cpu.p.out = "Ok"
        /\ cpu.p.reg.pc = IF BranchTaken(Fetches(cpu.prev), cpu.prev.reg.cc)
                          THEN BranchGoal
                          ELSE (cpu.prev.reg.pc + 2) % U8Mod

\* the two registers an exchange swaps, as a pair
ExgPair(p, op) ==
    CASE op = 159 -> <<p.reg.a, p.reg.cc>>
      [] op = 175 -> <<p.reg.x, p.reg.y>>
      [] op = 191 -> <<p.reg.x, p.reg.sp>>
      [] op = 207 -> <<p.reg.y, p.reg.sp>>

(***************************************************************************)
(* C38: two steps in a row that execute the same exchange, EXG A,CC,       *)
(* EXG X,Y, EXG X,SP or EXG Y,SP, leave both registers of the pair as they *)
(* were before the first: all eight bits of A and the five flags of CC.    *)
(***************************************************************************)
C38_ExgTwice ==
    (cpu.last = "step" /\ cpu.last2 = "step"
        /\ Fetches(cpu.prev2) \in ExgOpcodes
        /\ Fetches(cpu.prev) = Fetches(cpu.prev2)) =>
        /\ cpu.p.out = "Ok"
        /\ ExgPair(cpu.p, Fetches(cpu.prev)) = ExgPair(cpu.prev2, Fetches(cpu.prev))

\* the mnemonics whose only operand form in the table of parse_instruction is None
ZeroOperand ==
    { e[1] : e \in { r \in OpcodeTable : r[2] = "None" } }
        \ { e[1] : e \in { r \in OpcodeTable : r[2] # "None" } }

\* token i is a zero-operand instruction, the next token is the symbol of a label
\* definition, and parse has dealt with the instruction
LabelBehind(i) ==
    /\ i + 1 <= Len(px.toks)
    /\ px.toks[i].kind = "Instruction" /\ px.toks[i].str \in ZeroOperand
    /\ px.toks[i + 1].kind = "Sym"
    /\ px.phase \in {"lines", "done"}

(***************************************************************************)
(* C39: a zero-operand instruction followed in the token stream by a label *)
(* definition parses without an error as an instruction line with no       *)
(* operand, and the line parse pushes next is the definition of the label: *)
(* the symbol is not consumed as the operand of the instruction.           *)
(***************************************************************************)
C39_LabelNotOperand ==
    \A i \in 1 .. Len(px.toks) :
        LabelBehind(i) =>
            /\ px.out = "Ok" /\ px.err = ""
            /\ \E k \in 1 .. Len(px.lines) :
                 /\ px.lines[k].kind = "Instruction"
                 /\ px.lines[k].span.start = px.toks[i].start
                 /\ px.lines[k].operands = <<>>
                 /\ k < Len(px.lines) =>
                      /\ px.lines[k + 1].kind = "Symbol"
                      /\ px.lines[k + 1].name = px.toks[i + 1].str

=============================================================================
